---- MODULE Spec2Model ----
(***************************************************************************)
(* A model of the astrixa compilation core: lexer cursor, top-level parse  *)
(* loop, module loader and driver flattening, AST -> IR lowering, and the  *)
(* IR optimizer (constant folding, dead-code truncation, inlining).        *)
(***************************************************************************)
EXTENDS Integers, Sequences, FiniteSets, TLC

VARIABLES
    \* ---- lowering / optimizer pipeline (lowering.rs, opt/*.rs)
    ast,            \* the statement list handed to lower()
    module,         \* IRModule.functions: sequence of IRFunction records
    prev,           \* IRModule.functions as they were before the last pass
    stage,          \* position inside lower(); optimize_module()
    cursor,         \* index of the function the per-function loop is at
    checks,         \* TRUE: build with overflow checks (debug), FALSE: release
    \* ---- lexer and top-level parser (lexer.rs, parser.rs)
    input,          \* Lexer.input
    position,       \* Lexer.position
    line,           \* Lexer.line
    column,         \* Lexer.column
    current,        \* Parser.current
    ntokens,        \* number of next_token calls made so far
    ppc,            \* position of the parser: "new", "parse", "done"
    \* ---- module loader and driver (loader.rs, bin/compile_modules.rs)
    files,          \* the .ax files on the search path: name -> statements
    main_ast,       \* the parsed main file
    loaded_modules, \* ModuleLoader.loaded_modules
    imported_modules, \* the driver's imported_modules vector
    combined_ast,   \* the flattened compilation unit
    next_stmt,      \* index of the main statement the import loop is at
    dpc,            \* position of the driver: "imports", "flatten", "done", "error"
    called,         \* the names load_module has been called with, in order
    io,             \* the file-system and parser work load_module has done, in order
    returned,       \* what the last load_module call returned
    \* ---- WAT emission (codegen/wasm.rs)
    wat,            \* the emitted module: data section, imports, functions
    \* ---- type checker (typechecker.rs)
    checker,        \* the TypeChecker: [symbols, functions, errors]
    checked,        \* number of top-level statements check() has been through
    tpc,            \* position of check(): "check", "ok", "err"
    \* ---- parser methods (parser.rs)
    parsed          \* what the parser method that was called returned

optVars == <<ast, module, prev, stage, cursor, checks>>
lexVars == <<input, position, line, column, current, ntokens, ppc>>
loadVars == <<files, main_ast, loaded_modules, imported_modules, combined_ast, next_stmt, dpc,
              called, io, returned>>
\* the state of the stages after optimize_module
tcVars == <<checker, checked, tpc>>
extVars == <<wat, tcVars, parsed>>
vars == <<optVars, lexVars, loadVars, extVars>>

(***************************************************************************)
(* Bounds of the model                                                     *)
(***************************************************************************)
\* width of the modelled machine integer (stands for the 64 bits of i64)
WordBits == 5
\* number of statements in the body of the generated caller
MaxBody == 2
\* number of characters of a generated source text
MaxInput == 3
\* number of statements in a generated source file of the loader model
MaxFile == 2
\* number of instructions a modelled execution may take
Fuel == 40

RECURSIVE Pow2(_)
Pow2(k) == IF k = 0 THEN 1 ELSE 2 * Pow2(k - 1)
MinInt == -Pow2(WordBits - 1)
MaxInt == Pow2(WordBits - 1) - 1

SeqsUpTo(S, k) == UNION {[1..m -> S] : m \in 0..k}

(***************************************************************************)
(* AST (ast.rs).  Every expression and every statement is a record of one  *)
(* shape; the fields a variant does not have hold a default.               *)
(***************************************************************************)
Expr(e, n, s, m, args) == [e |-> e, n |-> n, s |-> s, m |-> m, args |-> args]
Number(n) == Expr("Number", n, "", "", <<>>)
String(s) == Expr("String", 0, s, "", <<>>)
Identifier(s) == Expr("Identifier", 0, s, "", <<>>)
Call(name, args) == Expr("Call", 0, name, "", args)
ModuleCall(m, name, args) == Expr("ModuleCall", 0, name, m, args)
Binary(op, l, r) == Expr(op, 0, "", "", <<l, r>>)

Stmt(t, name, params, value, body, has_else, else_body) ==
    [t |-> t, name |-> name, params |-> params, value |-> value, body |-> body,
     has_else |-> has_else, else_body |-> else_body]
Import(name) == Stmt("Import", name, <<>>, Number(0), <<>>, FALSE, <<>>)
Function(name, params, body) == Stmt("Function", name, params, Number(0), body, FALSE, <<>>)
Expression(e) == Stmt("Expression", "", <<>>, e, <<>>, FALSE, <<>>)
Let(name, e) == Stmt("Let", name, <<>>, e, <<>>, FALSE, <<>>)
Assign(name, e) == Stmt("Assign", name, <<>>, e, <<>>, FALSE, <<>>)
If(c, then_body) == Stmt("If", "", <<>>, c, then_body, FALSE, <<>>)
IfElse(c, then_body, else_body) == Stmt("If", "", <<>>, c, then_body, TRUE, else_body)
While(c, body) == Stmt("While", "", <<>>, c, body, FALSE, <<>>)
Return(e) == Stmt("Return", "", <<>>, e, <<>>, FALSE, <<>>)
Panic(e) == Stmt("Panic", "", <<>>, e, <<>>, FALSE, <<>>)

(***************************************************************************)
(* IR (ir.rs).  An instruction is [op, n, s]: n is the integer operand     *)
(* (constant, slot, jump target, arg_count), s the name operand.           *)
(***************************************************************************)
IRInstr(op, n, s) == [op |-> op, n |-> n, s |-> s]
Op(op) == IRInstr(op, 0, "")
IRFunction(name, param_count, instructions, local_count) ==
    [name |-> name, param_count |-> param_count, instructions |-> instructions,
     local_count |-> local_count]

(***************************************************************************)
(* Call-family registries (stdlib.rs)                                      *)
(***************************************************************************)
is_stdlib(name) ==
    name \in {"print", "println", "input", "len", "exit", "abs", "pow", "sqrt", "min",
              "max", "rand", "time", "sleep", "hash", "keccak", "sha256",
              "ai.generate", "ai.embed", "ai.classify"}
is_ai(name) == name \in {"ai.generate", "ai.embed", "ai.classify"}
is_web3(name) ==
    name \in {"web3.wallet", "web3.sign", "web3.verify", "web3.keccak", "web3.balance",
              "web3.send"}
\* stdlib::is_fs_function is not part of the sources: the FS registry is empty
is_fs_function(name) == FALSE

(***************************************************************************)
(* AST -> IR lowering (lowering.rs)                                        *)
(***************************************************************************)
Put(f, k, v) == [x \in (DOMAIN f) \cup {k} |-> IF x = k THEN v ELSE f[x]]

\* LowerCtx::new
LowerCtx_new == [locals |-> <<>>, next_slot |-> 0]
\* alloc that takes a name already bound for no new slot
LowerCtx_alloc_rebound(ctx, name) ==
    [locals |-> Put(ctx.locals, name, ctx.next_slot),
     next_slot |-> IF name \in DOMAIN ctx.locals THEN ctx.next_slot ELSE ctx.next_slot + 1]
\* LowerCtx::alloc: the (possibly re-bound) name gets the next slot
LowerCtx_alloc(ctx, name) ==
    [locals |-> Put(ctx.locals, name, ctx.next_slot), next_slot |-> ctx.next_slot + 1]
\* LowerCtx::get
LowerCtx_has(ctx, name) == name \in DOMAIN ctx.locals

RECURSIVE lower_expression(_, _)
RECURSIVE lower_args(_, _, _)
\* the `for arg in args { lower_expression(arg, ..) }` loops
lower_args(args, k, ctx) ==
    IF k > Len(args) THEN <<>>
    ELSE lower_expression(args[k], ctx) \o lower_args(args, k + 1, ctx)

lower_expression(expr, ctx) ==
    CASE expr.e = "Number" -> <<IRInstr("LoadConstInt", expr.n, "")>>
      [] expr.e = "String" -> <<IRInstr("LoadConstString", 0, expr.s)>>
      [] expr.e = "Identifier" ->
            IF LowerCtx_has(ctx, expr.s)
            THEN <<IRInstr("LoadLocal", ctx.locals[expr.s], "")>>
            ELSE <<IRInstr("LoadVar", 0, expr.s)>>
      [] expr.e = "Call" ->
            lower_args(expr.args, 1, ctx) \o
            ( IF is_web3(expr.s) THEN <<IRInstr("CallWeb3", 0, expr.s)>>
              ELSE IF is_ai(expr.s) THEN <<IRInstr("CallAI", 0, expr.s)>>
              ELSE IF is_stdlib(expr.s) THEN <<IRInstr("CallStd", 0, expr.s)>>
              ELSE <<IRInstr("Call", Len(expr.args), expr.s)>> )
      [] expr.e = "ModuleCall" ->
            LET qualified_name == expr.m \o "." \o expr.s IN
            lower_args(expr.args, 1, ctx) \o
            ( IF is_ai(qualified_name) THEN <<IRInstr("CallAI", 0, qualified_name)>>
              ELSE IF is_web3(qualified_name) THEN <<IRInstr("CallWeb3", 0, qualified_name)>>
              ELSE IF is_fs_function(qualified_name) THEN <<IRInstr("CallFS", 0, qualified_name)>>
              ELSE <<IRInstr("Call", Len(expr.args), qualified_name)>> )
      [] OTHER ->  \* the eleven binary operators: left, right, operator
            lower_expression(expr.args[1], ctx) \o lower_expression(expr.args[2], ctx)
                \o <<Op(expr.e)>>

\* a patch that lands one instruction late
patch_late(instructions, index, t) ==
    [instructions EXCEPT ![index + 1] = IRInstr(@.op, t + 1, @.s)]

\* `if let Jump/JumpIfFalse(ref mut target) = &mut instructions[index] { *target = t }`
patch(instructions, index, t) ==
    [instructions EXCEPT ![index + 1] = IRInstr(@.op, t, @.s)]

RECURSIVE lower_statement(_, _)
RECURSIVE lower_body(_, _, _)
\* the `for stmt in body { lower_statement(stmt, function, ctx) }` loops
lower_body(body, k, st) ==
    IF k > Len(body) THEN st ELSE lower_body(body, k + 1, lower_statement(body[k], st))

\* st = [instructions, ctx]: the function under construction and its LowerCtx
lower_statement(stmt, st) ==
    CASE stmt.t = "Expression" ->
            [st EXCEPT !.instructions = @ \o lower_expression(stmt.value, st.ctx)]
      [] stmt.t = "Let" ->
            LET ctx2 == LowerCtx_alloc(st.ctx, stmt.name) IN
            [instructions |-> st.instructions \o lower_expression(stmt.value, ctx2)
                                \o <<IRInstr("StoreLocal", st.ctx.next_slot, "")>>,
             ctx |-> ctx2]
      [] stmt.t = "If" ->
            LET s1 == st.instructions \o lower_expression(stmt.value, st.ctx)
                jump_if_false_index == Len(s1)
                s2 == Append(s1, IRInstr("JumpIfFalse", 0, ""))
                st3 == lower_body(stmt.body, 1, [instructions |-> s2, ctx |-> st.ctx])
            IN  IF stmt.has_else
                THEN LET jump_index == Len(st3.instructions)
                         s4 == Append(st3.instructions, IRInstr("Jump", 0, ""))
                         else_start == Len(s4)
                         s5 == patch(s4, jump_if_false_index, else_start)
                         st6 == lower_body(stmt.else_body, 1,
                                           [instructions |-> s5, ctx |-> st3.ctx])
                         end == Len(st6.instructions)
                     IN  [st6 EXCEPT !.instructions = patch(@, jump_index, end)]
                ELSE LET end == Len(st3.instructions)
                     IN  [st3 EXCEPT !.instructions = patch(@, jump_if_false_index, end)]
      [] stmt.t = "Assign" ->
            IF LowerCtx_has(st.ctx, stmt.name)
            THEN [st EXCEPT !.instructions = @ \o lower_expression(stmt.value, st.ctx)
                                \o <<IRInstr("StoreLocal", st.ctx.locals[stmt.name], "")>>]
            ELSE st
      [] stmt.t = "While" ->
            LET loop_start == Len(st.instructions)
                s1 == st.instructions \o lower_expression(stmt.value, st.ctx)
                jump_if_false_index == Len(s1)
                s2 == Append(s1, IRInstr("JumpIfFalse", 0, ""))
                st3 == lower_body(stmt.body, 1, [instructions |-> s2, ctx |-> st.ctx])
                s4 == Append(st3.instructions, IRInstr("Jump", loop_start, ""))
                loop_end == Len(s4)
            IN  [st3 EXCEPT !.instructions = patch(s4, jump_if_false_index, loop_end)]
      [] stmt.t = "Return" ->
            [st EXCEPT !.instructions = @ \o lower_expression(stmt.value, st.ctx)
                                \o <<Op("Return")>>]
      [] stmt.t = "Panic" ->
            [st EXCEPT !.instructions = @ \o lower_expression(stmt.value, st.ctx)
                                \o <<Op("Panic")>>]
      [] OTHER -> st   \* Import, nested Function: nothing is lowered

RECURSIVE alloc_params(_, _, _)
alloc_params(params, k, ctx) ==
    IF k > Len(params) THEN ctx
    ELSE alloc_params(params, k + 1, LowerCtx_alloc(ctx, params[k]))

\* lower_function without the closing `LoadConstInt(0); Return`
lower_function_open(name, params, body) ==
    LET ctx0 == alloc_params(params, 1, LowerCtx_new)
        st == lower_body(body, 1, [instructions |-> <<>>, ctx |-> ctx0])
    IN  IRFunction(name, Len(params), st.instructions, st.ctx.next_slot)

lower_function(name, params, body) ==
    LET ctx0 == alloc_params(params, 1, LowerCtx_new)
        st == lower_body(body, 1, [instructions |-> <<>>, ctx |-> ctx0])
        ins == st.instructions
        fin == IF ins = <<>> \/ ins[Len(ins)].op # "Return"
               THEN ins \o <<IRInstr("LoadConstInt", 0, ""), Op("Return")>>
               ELSE ins
    IN  IRFunction(name, Len(params), fin, st.ctx.next_slot)

RECURSIVE lower_from(_, _)
lower_from(stmts, k) ==
    IF k > Len(stmts) THEN <<>>
    ELSE IF stmts[k].t = "Function"
         THEN <<lower_function(stmts[k].name, stmts[k].params, stmts[k].body)>>
                  \o lower_from(stmts, k + 1)
         ELSE lower_from(stmts, k + 1)
\* lower(): one IRFunction per top-level Function statement, in order
lower(stmts) == lower_from(stmts, 1)

(***************************************************************************)
(* Machine arithmetic of the compiler's host (i64 in the source)           *)
(***************************************************************************)
InWord(x) == MinInt <= x /\ x <= MaxInt
\* two's-complement wrap-around to the word
Wrap(x) == ((x - MinInt) % Pow2(WordBits)) + MinInt
Abs(x) == IF x < 0 THEN -x ELSE x
\* Rust `/` and `%` on integers: quotient truncated toward zero
TruncDiv(a, b) ==
    IF (a < 0) = (b < 0) THEN Abs(a) \div Abs(b) ELSE -(Abs(a) \div Abs(b))
TruncRem(a, b) == a - b * TruncDiv(a, b)
Bool01(c) == IF c THEN 1 ELSE 0

FoldableOps == {"Add", "Sub", "Mul", "Div", "Mod", "Eq", "Ne", "Lt", "Le", "Gt", "Ge"}

\* The value a OP b as the 64-bit wrapping ALU of the runtime computes it
\* (b # 0 for Div and Mod).
WrappingOp(op, a, b) ==
    CASE op = "Add" -> Wrap(a + b)
      [] op = "Sub" -> Wrap(a - b)
      [] op = "Mul" -> Wrap(a * b)
      [] op = "Div" -> Wrap(TruncDiv(a, b))
      [] op = "Mod" -> Wrap(TruncRem(a, b))
      [] op = "Eq" -> Bool01(a = b)
      [] op = "Ne" -> Bool01(a # b)
      [] op = "Lt" -> Bool01(a < b)
      [] op = "Le" -> Bool01(a <= b)
      [] op = "Gt" -> Bool01(a > b)
      [] op = "Ge" -> Bool01(a >= b)

(***************************************************************************)
(* Constant folding (opt/const_fold.rs)                                    *)
(***************************************************************************)
\* a fold that has no `if *b != 0` guard and takes x / 0 and x % 0 for 0
fold_triple_unguarded(op, a, b, overflow_checks) ==
    IF op \in FoldableOps
    THEN [kind |-> "fold", v |-> IF op \in {"Div", "Mod"} /\ b = 0 THEN 0
                                 ELSE IF op = "Div" THEN TruncDiv(a, b)
                                 ELSE IF op = "Mod" THEN TruncRem(a, b)
                                 ELSE WrappingOp(op, a, b)]
    ELSE [kind |-> "none", v |-> 0]

\* Outcome of one arm of the match on (LoadConstInt(a), LoadConstInt(b), OP):
\* "none" (no arm matches), "fold" with the constant, or "panic": the Rust
\* operators `+ - *` panic on overflow when the build has overflow checks and
\* wrap otherwise; `/` and `%` panic on MIN / -1 in every build.
fold_triple(op, a, b, overflow_checks) ==
    LET exact == CASE op = "Add" -> a + b
                   [] op = "Sub" -> a - b
                   [] op = "Mul" -> a * b
                   [] OTHER -> 0
    IN  CASE op \in {"Add", "Sub", "Mul"} ->
                IF InWord(exact) THEN [kind |-> "fold", v |-> exact]
                ELSE IF overflow_checks THEN [kind |-> "panic", v |-> 0]
                ELSE [kind |-> "fold", v |-> Wrap(exact)]
          [] op \in {"Div", "Mod"} ->
                IF b = 0 THEN [kind |-> "none", v |-> 0]
                ELSE IF a = MinInt /\ b = -1 THEN [kind |-> "panic", v |-> 0]
                ELSE [kind |-> "fold",
                      v |-> IF op = "Div" THEN TruncDiv(a, b) ELSE TruncRem(a, b)]
          [] op \in {"Eq", "Ne", "Lt", "Le", "Gt", "Ge"} ->
                [kind |-> "fold", v |-> WrappingOp(op, a, b)]
          [] OTHER -> [kind |-> "none", v |-> 0]

\* ir.splice(i..i + 3, [replacement]) with i a 0-based index
splice3(ir, i, replacement) ==
    SubSeq(ir, 1, i) \o <<replacement>> \o SubSeq(ir, i + 4, Len(ir))

RECURSIVE const_fold_from(_, _, _)
\* the `while i + 2 < ir.len()` loop from index i on
const_fold_from(ir, i, overflow_checks) ==
    IF ~(i + 2 < Len(ir)) THEN [panicked |-> FALSE, ir |-> ir]
    ELSE LET x == ir[i + 1]
             y == ir[i + 2]
             z == ir[i + 3]
             r == IF x.op = "LoadConstInt" /\ y.op = "LoadConstInt"
                  THEN fold_triple(z.op, x.n, y.n, overflow_checks)
                  ELSE [kind |-> "none", v |-> 0]
         IN  CASE r.kind = "panic" -> [panicked |-> TRUE, ir |-> ir]
               [] r.kind = "fold" ->
                    const_fold_from(splice3(ir, i, IRInstr("LoadConstInt", r.v, "")), i,
                                    overflow_checks)
               [] OTHER -> const_fold_from(ir, i + 1, overflow_checks)

\* const_fold(ir): [panicked, ir]
const_fold(ir, overflow_checks) == const_fold_from(ir, 0, overflow_checks)

(***************************************************************************)
(* Dead-code truncation (opt/dce.rs)                                       *)
(***************************************************************************)
IsTerminator(i) == i.op \in {"Return", "Panic"}

dead_code_elim(ir) ==
    IF \E k \in 1..Len(ir) : IsTerminator(ir[k])
    THEN LET pos == CHOOSE k \in 1..Len(ir) :
                        IsTerminator(ir[k]) /\ \A j \in 1..(k - 1) : ~IsTerminator(ir[j])
         IN  SubSeq(ir, 1, pos)
    ELSE ir

(***************************************************************************)
(* Small-function inlining (opt/inline.rs)                                 *)
(***************************************************************************)
MaxInlineInstrs == 5
MaxInlineParams == 5

is_inline_candidate(func) ==
    LET ins == func.instructions IN
    /\ ~(Len(ins) > MaxInlineInstrs)
    /\ ~(func.param_count > MaxInlineParams)
    /\ \A k \in 1..Len(ins) :
            ins[k].op \notin {"Jump", "JumpIfFalse", "Call", "CallStd", "CallAI"}
    /\ Cardinality({k \in 1..Len(ins) : ins[k].op = "Return"}) = 1
    /\ Len(ins) > 0 /\ ins[Len(ins)].op = "Return"

\* candidates.get(name): the functions are inserted into the map in module
\* order, so a later function of the same name replaces an earlier one
candidate_index(functions, name) ==
    LET hits == {k \in 1..Len(functions) :
                    functions[k].name = name /\ is_inline_candidate(functions[k])}
    IN  IF hits = {} THEN 0 ELSE CHOOSE k \in hits : \A j \in hits : j <= k

\* argument stores in ascending slot order: the last argument, which is on
\* top of the stack, would land in slot base
RECURSIVE arg_stores_ascending(_, _)
arg_stores_ascending(base, arg_count) ==
    IF arg_count = 0 THEN <<>>
    ELSE arg_stores_ascending(base, arg_count - 1)
            \o <<IRInstr("StoreLocal", base + arg_count - 1, "")>>

\* StoreLocal(base + idx) for idx in (0..arg_count).rev()
RECURSIVE arg_stores(_, _)
arg_stores(base, arg_count) ==
    IF arg_count = 0 THEN <<>>
    ELSE <<IRInstr("StoreLocal", base + arg_count - 1, "")>> \o arg_stores(base, arg_count - 1)

\* the callee body with Return dropped and local slots shifted by base
RECURSIVE shifted_body(_, _, _)
shifted_body(instrs, k, base) ==
    IF k > Len(instrs) THEN <<>>
    ELSE LET i == instrs[k]
             out == CASE i.op = "Return" -> <<>>
                      [] i.op \in {"LoadLocal", "StoreLocal"} -> <<IRInstr(i.op, base + i.n, "")>>
                      [] OTHER -> <<i>>
         IN  out \o shifted_body(instrs, k + 1, base)

RECURSIVE inline_from(_, _, _, _)
\* the `while i < function.instructions.len()` loop: i is 1-based here,
\* acc = [instructions |-> new_instrs, local_count |-> function.local_count]
inline_from(functions, old, i, acc) ==
    IF i > Len(old) THEN acc
    ELSE LET ins == old[i]
             c == IF ins.op = "Call" THEN candidate_index(functions, ins.s) ELSE 0
         IN  IF c # 0 /\ functions[c].param_count = ins.n
             THEN LET base == acc.local_count
                      callee == functions[c]
                  IN  inline_from(functions, old, i + 1,
                          [instructions |-> acc.instructions \o arg_stores(base, ins.n)
                                              \o shifted_body(callee.instructions, 1, base),
                           local_count |-> base + callee.local_count])
             ELSE inline_from(functions, old, i + 1,
                          [acc EXCEPT !.instructions = Append(@, ins)])

inline_in_function(function, functions) ==
    LET r == inline_from(functions, function.instructions, 1,
                         [instructions |-> <<>>, local_count |-> function.local_count])
    IN  [function EXCEPT !.instructions = r.instructions, !.local_count = r.local_count]

\* candidates are collected once, from the module as it is before inlining
inline_small_functions(functions) ==
    [k \in 1..Len(functions) |-> inline_in_function(functions[k], functions)]

(***************************************************************************)
(* Execution of a function's IR with Jump/JumpIfFalse as absolute          *)
(* instruction indices; the trace is the sequence of external calls.       *)
(***************************************************************************)
\* parameters and result of an import (codegen/wasm.rs, generate_import)
import_params(name) ==
    CASE name \in {"input", "time", "web3.wallet"} -> 0
      [] name \in {"print", "println", "pow", "min", "max", "hash", "keccak", "sha256",
                   "ai.generate", "ai.embed", "ai.classify", "web3.sign", "web3.keccak",
                   "web3.send"} -> 2
      [] name = "web3.verify" -> 4
      [] OTHER -> 1
import_has_result(name) == name \notin {"print", "println", "exit", "sleep"}

Top(stack) == stack[Len(stack)]
PopN(stack, k) == SubSeq(stack, 1, Len(stack) - k)
Halt(status, trace) == [status |-> status, trace |-> trace, value |-> 0, fuel |-> 0]
\* IRModule::find_function
find_function(functions, name) ==
    IF \E k \in 1..Len(functions) : functions[k].name = name
    THEN CHOOSE k \in 1..Len(functions) :
            functions[k].name = name /\ \A j \in 1..(k - 1) : functions[j].name # name
    ELSE 0
\* local slots at function entry: the arguments, then zeros
entry_locals(func, args) ==
    [k \in 0..(func.local_count - 1) |-> IF k < Len(args) THEN args[k + 1] ELSE 0]

RECURSIVE exec(_, _, _, _, _, _, _)
exec(functions, ins, pc, stack, locals, trace, fuel) ==
    IF fuel = 0 THEN Halt("fuel", trace)
    ELSE IF pc = Len(ins) THEN Halt("end", trace)
    ELSE IF pc > Len(ins) THEN Halt("trap", trace)
    ELSE
    LET i == ins[pc + 1]
        depth == Len(stack)
        next(st, lc, tr) == exec(functions, ins, pc + 1, st, lc, tr, fuel - 1)
    IN  CASE i.op = "LoadConstInt" -> next(Append(stack, i.n), locals, trace)
          [] i.op \in {"LoadConstString", "LoadVar"} -> next(Append(stack, 0), locals, trace)
          [] i.op = "LoadLocal" ->
                IF i.n \in DOMAIN locals THEN next(Append(stack, locals[i.n]), locals, trace)
                ELSE Halt("trap", trace)
          [] i.op = "StoreLocal" ->
                IF i.n \in DOMAIN locals /\ depth >= 1
                THEN next(PopN(stack, 1), [locals EXCEPT ![i.n] = Top(stack)], trace)
                ELSE Halt("trap", trace)
          [] i.op \in FoldableOps ->
                IF depth < 2 \/ (i.op \in {"Div", "Mod"} /\ Top(stack) = 0)
                THEN Halt("trap", trace)
                ELSE next(Append(PopN(stack, 2),
                                 WrappingOp(i.op, stack[depth - 1], stack[depth])),
                          locals, trace)
          [] i.op = "Jump" -> exec(functions, ins, i.n, stack, locals, trace, fuel - 1)
          [] i.op = "JumpIfFalse" ->
                IF depth < 1 THEN Halt("trap", trace)
                ELSE exec(functions, ins, IF Top(stack) = 0 THEN i.n ELSE pc + 1,
                          PopN(stack, 1), locals, trace, fuel - 1)
          [] i.op = "Call" ->
                LET c == find_function(functions, i.s) IN
                IF c = 0 \/ depth < i.n THEN Halt("trap", trace)
                ELSE LET callee == functions[c]
                         args == SubSeq(stack, depth - i.n + 1, depth)
                         r == exec(functions, callee.instructions, 0, <<>>,
                                   entry_locals(callee, args), trace, fuel - 1)
                     IN  IF r.status = "return"
                         THEN exec(functions, ins, pc + 1, Append(PopN(stack, i.n), r.value),
                                   locals, r.trace, r.fuel)
                         ELSE IF r.status = "end" THEN Halt("trap", r.trace)
                         ELSE r
          [] i.op \in {"CallStd", "CallAI", "CallWeb3", "CallFS"} ->
                IF depth < import_params(i.s) THEN Halt("trap", trace)
                ELSE LET rest == PopN(stack, import_params(i.s)) IN
                     next(IF import_has_result(i.s) THEN Append(rest, 0) ELSE rest,
                          locals, Append(trace, i.s))
          [] i.op = "Return" ->
                IF depth < 1 THEN Halt("trap", trace)
                ELSE [status |-> "return", trace |-> trace, value |-> Top(stack),
                      fuel |-> fuel - 1]
          [] i.op = "Panic" ->
                IF depth < 1 THEN Halt("trap", trace)
                ELSE Halt("panic", Append(trace, "panic"))
          [] OTHER -> Halt("trap", trace)

\* run function number f of the module on the arguments args
run(functions, f, args) ==
    exec(functions, functions[f].instructions, 0, <<>>, entry_locals(functions[f], args),
         <<>>, Fuel)

(***************************************************************************)
(* Control-flow reachability inside one instruction list                   *)
(***************************************************************************)
\* successors of the instruction at 0-based index p
Succ(ir, p) ==
    LET i == ir[p + 1] IN
    CASE i.op = "Jump" -> {i.n}
      [] i.op = "JumpIfFalse" -> {i.n, p + 1}
      [] i.op \in {"Return", "Panic"} -> {}
      [] OTHER -> {p + 1}

RECURSIVE ReachFrom(_, _)
ReachFrom(ir, seen) ==
    LET more == {q \in UNION {Succ(ir, p) : p \in seen} : q < Len(ir)} \ seen
    IN  IF more = {} THEN seen ELSE ReachFrom(ir, seen \cup more)
\* 0-based indices of the instructions reachable from the function entry
Reachable(ir) == IF ir = <<>> THEN {} ELSE ReachFrom(ir, {0})

(***************************************************************************)
(* Generated programs: one small callee and a caller `main(n)`             *)
(***************************************************************************)
Callees ==
    { Function("id", <<"a">>, <<Return(Identifier("a"))>>),
      Function("w", <<"a">>,
               <<Expression(ModuleCall("web3", "wallet", <<>>)), Return(Identifier("a"))>>),
      Function("add", <<"a", "b">>,
               <<Return(Binary("Add", Identifier("a"), Identifier("b")))>>) }

\* a call of the callee with literal arguments 2, 3, ..
CallOf(callee) == Call(callee.name, [k \in 1..Len(callee.params) |-> Number(k + 1)])

Conds == { Identifier("n"), Binary("Lt", Number(1), Number(2)) }

Simple(callee) ==
    { Return(v) : v \in { Number(1), Identifier("n"), CallOf(callee),
                          Binary("Add", Number(2), Number(3)) } }
    \cup { Expression(v) : v \in { CallOf(callee), Call("time", <<>>) } }
    \cup { Let("x", v) : v \in { Number(1), CallOf(callee) } }
    \cup { Panic(String("nope")) }

Inner(callee) ==
    { Return(Number(1)), Expression(CallOf(callee)), Expression(Call("time", <<>>)),
      Panic(String("nope")) }

ElseInner == { Return(Number(0)), Expression(Call("time", <<>>)) }

Compound(callee) ==
    { If(c, <<s>>) : c \in Conds, s \in Inner(callee) }
    \cup { IfElse(c, <<s>>, <<t>>) : c \in Conds,
                s \in { Return(Number(1)), Expression(CallOf(callee)) }, t \in ElseInner }
    \cup { While(c, <<s>>) : c \in Conds,
                s \in { Expression(CallOf(callee)), Expression(Call("time", <<>>)),
                        Return(Number(1)) } }

Programs ==
    UNION { { <<callee, Function("main", <<"n">>, body)>> :
                body \in SeqsUpTo(Simple(callee) \cup Compound(callee), MaxBody) } :
            callee \in Callees }

(***************************************************************************)
(* The pipeline lower(); optimize_module() as a state machine              *)
(***************************************************************************)
lexIdle ==
    /\ input = <<>> /\ position = 0 /\ line = 1 /\ column = 1
    /\ current = [kind |-> "EOF", text |-> "", num |-> 0] /\ ntokens = 0 /\ ppc = "idle"
loadIdle ==
    /\ files = <<>> /\ main_ast = <<>> /\ loaded_modules = <<>>
    /\ imported_modules = <<>> /\ combined_ast = <<>> /\ next_stmt = 0 /\ dpc = "idle"
    /\ called = <<>> /\ io = <<>> /\ returned = <<>>
optIdle ==
    /\ ast = <<>> /\ module = <<>> /\ prev = <<>> /\ stage = "idle" /\ cursor = 0
    /\ checks = FALSE
tcIdle ==
    /\ checker = <<>> /\ checked = 0 /\ tpc = "idle"
extIdle ==
    /\ wat = <<>>
    /\ tcIdle
    /\ parsed = <<>>

Init ==
    /\ ast \in Programs
    /\ checks \in BOOLEAN
    /\ module = <<>>
    /\ prev = <<>>
    /\ stage = "lower"
    /\ cursor = 0
    /\ lexIdle
    /\ loadIdle
    /\ extIdle

\* lowering.rs, lower(): the driver's `let ir_module = lower(&combined_ast)`
Lower ==
    /\ stage = "lower"
    /\ module' = lower(ast)
    /\ prev' = module
    /\ stage' = "fold1"
    /\ cursor' = 1
    /\ UNCHANGED <<ast, checks, lexVars, loadVars, extVars>>

\* optimize(), first call: const_fold on the function the loop is at.  A Rust
\* arithmetic panic inside const_fold aborts the compilation.
ConstFold ==
    /\ stage \in {"fold1", "fold2"}
    /\ cursor <= Len(module)
    /\ LET r == const_fold(module[cursor].instructions, checks) IN
        IF r.panicked
        THEN /\ stage' = "panicked"
             /\ UNCHANGED <<module, prev, cursor>>
        ELSE /\ module' = [module EXCEPT ![cursor].instructions = r.ir]
             /\ prev' = module
             /\ stage' = IF stage = "fold1" THEN "dce1" ELSE "dce2"
             /\ UNCHANGED cursor
    /\ UNCHANGED <<ast, checks, lexVars, loadVars, extVars>>

\* optimize(), second call: dead_code_elim on the same function; the loop of
\* optimize_module then moves to the next function
DeadCodeElim ==
    /\ stage \in {"dce1", "dce2"}
    /\ module' = [module EXCEPT ![cursor].instructions = dead_code_elim(@)]
    /\ prev' = module
    /\ IF cursor < Len(module)
       THEN /\ cursor' = cursor + 1
            /\ stage' = IF stage = "dce1" THEN "fold1" ELSE "fold2"
       ELSE /\ cursor' = cursor
            /\ stage' = IF stage = "dce1" THEN "inline" ELSE "done"
    /\ UNCHANGED <<ast, checks, lexVars, loadVars, extVars>>

\* inline_small_functions(&mut optimized)
Inline ==
    /\ stage = "inline"
    /\ module' = inline_small_functions(module)
    /\ prev' = module
    /\ stage' = "fold2"
    /\ cursor' = 1
    /\ UNCHANGED <<ast, checks, lexVars, loadVars, extVars>>

Next == Lower \/ ConstFold \/ DeadCodeElim \/ Inline

Spec == Init /\ [][Next]_vars

(***************************************************************************)
(* Constant expressions: every word value written in the source language,  *)
(* which has non-negative literals only and no unary minus                  *)
(***************************************************************************)
Lit(v) ==
    IF v >= 0 THEN Number(v)
    ELSE IF v = MinInt
         THEN Binary("Sub", Binary("Sub", Number(0), Number(MaxInt)), Number(1))
         ELSE Binary("Sub", Number(0), Number(-v))

\* the value of Lit(v) and of OP over two of them on the runtime's ALU
RECURSIVE Eval(_)
Eval(expr) ==
    IF expr.e = "Number" THEN expr.n
    ELSE WrappingOp(expr.e, Eval(expr.args[1]), Eval(expr.args[2]))

FoldPrograms ==
    { <<Function("main", <<>>, <<Return(Binary(op, Lit(a), Lit(b)))>>)>> :
        a \in MinInt..MaxInt, b \in MinInt..MaxInt, op \in FoldableOps }

InitFold ==
    /\ ast \in FoldPrograms
    /\ checks \in BOOLEAN
    /\ module = <<>>
    /\ prev = <<>>
    /\ stage = "lower"
    /\ cursor = 0
    /\ lexIdle
    /\ loadIdle
    /\ extIdle

SpecFold == InitFold /\ [][Next]_vars

(***************************************************************************)
(* Claims about the optimizer                                              *)
(***************************************************************************)
\* the last step was dead_code_elim on function DceFn
JustDce == stage \in {"inline", "done"} \/ (stage \in {"fold1", "fold2"} /\ cursor > 1)
DceFn == IF stage \in {"inline", "done"} THEN cursor ELSE cursor - 1

\* C1: dead_code_elim never removes an instruction that control flow reaches
\* from the entry of a function produced by lowering, also when a Return or
\* Panic sits inside an if/while branch.
C1_DceKeepsReachable ==
    (JustDce /\ prev[DceFn].instructions = lower(ast)[DceFn].instructions)
        => \A p \in Reachable(prev[DceFn].instructions) :
                p < Len(module[DceFn].instructions)

\* the last step was inline_small_functions
JustInlined == stage = "fold2" /\ cursor = 1
ArgsOf(func) == [1..func.param_count -> {0, 1}]

\* C2: in every caller in which inline_small_functions replaced a call, the
\* IR after inlining performs the same sequence of external calls as the IR
\* before it, on every argument (runs that exhaust the step budget excepted).
C2_InlinePreservesTrace ==
    JustInlined =>
        \A f \in 1..Len(module) :
            module[f] # prev[f] =>
                \A args \in ArgsOf(module[f]) :
                    LET before == run(prev, f, args)
                        after == run(module, f, args)
                    IN  (before.status # "fuel" /\ after.status # "fuel")
                            => before.trace = after.trace

\* C3: after optimize_module every Jump(t) and JumpIfFalse(t) has
\* 0 <= t <= len(instructions) of its function.
C3_JumpTargetsInRange ==
    stage = "done" =>
        \A f \in 1..Len(module) :
            \A k \in 1..Len(module[f].instructions) :
                LET i == module[f].instructions[k] IN
                i.op \in {"Jump", "JumpIfFalse"}
                    => (0 <= i.n /\ i.n <= Len(module[f].instructions))

\* C4: after optimize_module every function has Return as its last
\* instruction, also when its body panics before any return.
C4_EndsWithReturn ==
    stage = "done" =>
        \A f \in 1..Len(module) :
            /\ module[f].instructions # <<>>
            /\ module[f].instructions[Len(module[f].instructions)].op = "Return"

\* C6: constant folding is sound for all operands: const_fold replaces every
\* triple LoadConstInt(a), LoadConstInt(b), OP it meets (b # 0 for Div and
\* Mod) by the constant the 64-bit wrapping ALU computes, so folding never
\* aborts and a fully folded `return a OP b` returns that value.
C6_FoldSound ==
    /\ stage # "panicked"
    /\ stage = "done" =>
          LET ins == module[1].instructions IN
          (Len(ins) = 2 /\ ins[1].op = "LoadConstInt")
              => ins[1].n = Eval(ast[1].body[1].value)

(***************************************************************************)
(* Lexer (lexer.rs, token.rs).  A source text is a sequence of characters,  *)
(* each a one-character string.                                             *)
(***************************************************************************)
Token(kind, text, num) == [kind |-> kind, text |-> text, num |-> num]
Tok(kind) == Token(kind, "", 0)

Digits == {"0", "1", "2", "3", "4", "5", "6", "7", "8", "9"}
Letters == {"a", "b", "e", "f", "i", "l", "n", "r", "t", "x"}
Whitespace == {" ", "\t", "\r", "\n"}
is_numeric(ch) == ch \in Digits
is_alphanumeric(ch) == ch \in Digits \cup Letters
is_whitespace(ch) == ch \in Whitespace

RECURSIVE Join(_)
\* a character sequence collected into a String
Join(chars) == IF chars = <<>> THEN "" ELSE Head(chars) \o Join(Tail(chars))

DigitValue(ch) ==
    CASE ch = "0" -> 0 [] ch = "1" -> 1 [] ch = "2" -> 2 [] ch = "3" -> 3 [] ch = "4" -> 4
      [] ch = "5" -> 5 [] ch = "6" -> 6 [] ch = "7" -> 7 [] ch = "8" -> 8 [] ch = "9" -> 9
RECURSIVE ParseDecimal(_, _)
\* text.parse::<i64>() on a run of digits (the overflow error needs more
\* digits than a generated text has)
ParseDecimal(chars, acc) ==
    IF chars = <<>> THEN acc ELSE ParseDecimal(Tail(chars), 10 * acc + DigitValue(Head(chars)))

\* a lexer cursor is [position, line, column]; position is 0-based
\* Lexer::advance
advance(inp, c) ==
    IF c.position < Len(inp)
    THEN IF inp[c.position + 1] = "\n"
         THEN [position |-> c.position + 1, line |-> c.line + 1, column |-> 1]
         ELSE [position |-> c.position + 1, line |-> c.line, column |-> c.column + 1]
    ELSE c

RECURSIVE skip_whitespace(_, _)
skip_whitespace(inp, c) ==
    IF c.position < Len(inp) /\ is_whitespace(inp[c.position + 1])
    THEN skip_whitespace(inp, advance(inp, c))
    ELSE c

RECURSIVE scan_while_ident(_, _)
scan_while_ident(inp, c) ==
    IF c.position < Len(inp)
       /\ (is_alphanumeric(inp[c.position + 1]) \/ inp[c.position + 1] = "_")
    THEN scan_while_ident(inp, advance(inp, c))
    ELSE c

keyword_or_identifier(text) ==
    CASE text = "fn" -> Tok("Fn")
      [] text = "let" -> Tok("Let")
      [] text = "return" -> Tok("Return")
      [] text = "if" -> Tok("If")
      [] text = "else" -> Tok("Else")
      [] text = "while" -> Tok("While")
      [] text = "panic" -> Tok("Panic")
      [] text = "import" -> Tok("Import")
      [] text = "export" -> Tok("Export")
      [] OTHER -> Token("Identifier", text, 0)

\* Lexer::read_identifier: [tok, c]
read_identifier(inp, c) ==
    LET end == scan_while_ident(inp, c)
        text == Join(SubSeq(inp, c.position + 1, end.position))
    IN  [tok |-> keyword_or_identifier(text), c |-> end]

RECURSIVE scan_while_numeric(_, _)
scan_while_numeric(inp, c) ==
    IF c.position < Len(inp) /\ is_numeric(inp[c.position + 1])
    THEN scan_while_numeric(inp, advance(inp, c))
    ELSE c

\* Lexer::read_number
read_number(inp, c) ==
    LET end == scan_while_numeric(inp, c)
        chars == SubSeq(inp, c.position + 1, end.position)
    IN  [tok |-> Token("Number", "", ParseDecimal(chars, 0)), c |-> end]

RECURSIVE read_string_body(_, _, _)
\* the `while ... != '"'` loop of read_string: [text, c]
read_string_body(inp, c, result) ==
    IF c.position < Len(inp) /\ inp[c.position + 1] # "\""
    THEN IF inp[c.position + 1] = "\\" /\ c.position + 1 < Len(inp)
         THEN LET c2 == advance(inp, c)
                  e == inp[c2.position + 1]
                  decoded == CASE e = "n" -> "\n"
                               [] e = "r" -> "\r"
                               [] e = "t" -> "\t"
                               [] e = "\\" -> "\\"
                               [] e = "\"" -> "\""
                               [] OTHER -> "\\" \o e
              IN  read_string_body(inp, advance(inp, c2), result \o decoded)
         ELSE read_string_body(inp, advance(inp, c), result \o inp[c.position + 1])
    ELSE [text |-> result, c |-> c]

\* Lexer::read_string
read_string(inp, c) ==
    LET r == read_string_body(inp, advance(inp, c), "")
        closed == r.c.position < Len(inp) /\ inp[r.c.position + 1] = "\""
    IN  [tok |-> Token("String", r.text, 0),
         c |-> IF closed THEN advance(inp, r.c) ELSE r.c]

\* peek_two_char_op, peek_not_equal, peek_less, peek_greater
peek_op(inp, c, two, one) ==
    IF c.position + 1 < Len(inp) /\ inp[c.position + 2] = "="
    THEN [tok |-> two, c |-> advance(inp, advance(inp, c))]
    ELSE [tok |-> one, c |-> advance(inp, c)]

\* Lexer::simple
simple(inp, c, tok) == [tok |-> tok, c |-> advance(inp, c)]

\* Lexer::next_token: [tok, c]
next_token(inp, c0) ==
    LET c == skip_whitespace(inp, c0) IN
    IF c.position >= Len(inp) THEN [tok |-> Tok("EOF"), c |-> c]
    ELSE LET ch == inp[c.position + 1] IN
         CASE ch = "(" -> simple(inp, c, Tok("LParen"))
           [] ch = ")" -> simple(inp, c, Tok("RParen"))
           [] ch = "{" -> simple(inp, c, Tok("LBrace"))
           [] ch = "}" -> simple(inp, c, Tok("RBrace"))
           [] ch = "+" -> simple(inp, c, Tok("Plus"))
           [] ch = "-" -> simple(inp, c, Tok("Minus"))
           [] ch = "*" -> simple(inp, c, Tok("Star"))
           [] ch = "/" -> simple(inp, c, Tok("Slash"))
           [] ch = ":" -> simple(inp, c, Tok("Colon"))
           [] ch = "," -> simple(inp, c, Tok("Comma"))
           [] ch = "." -> simple(inp, c, Tok("Dot"))
           [] ch = "=" -> peek_op(inp, c, Tok("EqualEqual"), Tok("Assign"))
           [] ch = "!" -> peek_op(inp, c, Tok("NotEqual"), Token("Identifier", "!", 0))
           [] ch = "<" -> peek_op(inp, c, Tok("LessEqual"), Tok("Less"))
           [] ch = ">" -> peek_op(inp, c, Tok("GreaterEqual"), Tok("Greater"))
           [] ch = "\"" -> read_string(inp, c)
           [] OTHER -> IF is_numeric(ch) THEN read_number(inp, c)
                       ELSE read_identifier(inp, c)

(***************************************************************************)
(* Parser::new and the top-level loop of Parser::parse (parser.rs) on       *)
(* source texts that spell none of the keywords import, export, fn: every   *)
(* token then takes the `_ => self.advance()` arm.                          *)
(***************************************************************************)
\* the characters of the generated source texts
SourceChars == {"a", "_", "1", " ", "\n", "%", "=", "<", "(", "\"", "\\"}
\* cap on the number of next_token calls that are followed
MaxTokens == MaxInput + 3

Cursor == [position |-> position, line |-> line, column |-> column]

InitLexer ==
    /\ input \in SeqsUpTo(SourceChars, MaxInput)
    /\ position = 0
    /\ line = 1
    /\ column = 1
    /\ current = Tok("EOF")
    /\ ntokens = 0
    /\ ppc = "new"
    /\ optIdle
    /\ loadIdle
    /\ extIdle

\* the effect of `self.current = self.lexer.next_token()`
TakeToken ==
    LET r == next_token(input, Cursor) IN
    /\ current' = r.tok
    /\ position' = r.c.position
    /\ line' = r.c.line
    /\ column' = r.c.column
    /\ ntokens' = ntokens + 1

\* Parser::new
ParserNew ==
    /\ ppc = "new"
    /\ TakeToken
    /\ ppc' = "parse"
    /\ UNCHANGED <<input, optVars, loadVars, extVars>>

\* Parser::parse, one iteration of `while self.current != Token::EOF`
ParseSkipToken ==
    /\ ppc = "parse"
    /\ current.kind \notin {"EOF", "Import", "Export", "Fn"}
    /\ ntokens < MaxTokens
    /\ TakeToken
    /\ UNCHANGED <<ppc, input, optVars, loadVars, extVars>>

\* Parser::parse, loop exit: Ok(stmts)
ParseReturn ==
    /\ ppc = "parse"
    /\ current.kind = "EOF"
    /\ ppc' = "done"
    /\ UNCHANGED <<input, position, line, column, current, ntokens, optVars, loadVars, extVars>>

NextLexer == ParserNew \/ ParseSkipToken \/ ParseReturn

SpecLexer == InitLexer /\ [][NextLexer]_vars

\* C5: whenever the cursor, after whitespace skipping, is before the end of
\* the input, a call of next_token moves the cursor forward by at least one
\* character, whatever character is there.
C5_LexerProgress ==
    [][ (ntokens' = ntokens + 1
            /\ skip_whitespace(input, Cursor).position < Len(input))
          => position' > skip_whitespace(input, Cursor).position ]_vars

(***************************************************************************)
(* Module loader (loader.rs) and the driver's import loop and flattening    *)
(* (bin/compile_modules.rs, compile_with_modules)                           *)
(***************************************************************************)
\* the one function a generated file m.ax defines
OwnFn(m) == Function(m \o "_f", <<>>, <<>>)
\* a file on the search path: found by find_module_file or not, accepted by
\* the parser or not, and the statements the parser returns for it
SourceFile(found, parses, statements) ==
    [found |-> found, parses |-> parses, statements |-> statements]
Missing == SourceFile(FALSE, FALSE, <<>>)
Broken == SourceFile(TRUE, FALSE, <<>>)

ModuleNames == {"main", "a", "b"}

MainFiles ==
    { SourceFile(TRUE, TRUE, st) :
        st \in SeqsUpTo({Import("a"), Import("b"), Import("main"), OwnFn("main")}, MaxFile) }
    \cup {Broken}
AFiles ==
    { Missing, Broken,
      SourceFile(TRUE, TRUE, <<OwnFn("a")>>),
      SourceFile(TRUE, TRUE, <<Import("b"), OwnFn("a")>>),
      SourceFile(TRUE, TRUE, <<Import("a"), OwnFn("a")>>),
      SourceFile(TRUE, TRUE, <<Import("main"), OwnFn("a")>>) }
BFiles ==
    { Missing,
      SourceFile(TRUE, TRUE, <<OwnFn("b")>>),
      SourceFile(TRUE, TRUE, <<Import("a"), OwnFn("b")>>) }

\* ast::Module
Module(name, imports, statements) ==
    [name |-> name, imports |-> imports, statements |-> statements]

RECURSIVE SelectImports(_)
\* the names of the Import statements of a statement list, in order
SelectImports(statements) ==
    IF statements = <<>> THEN <<>>
    ELSE IF Head(statements).t = "Import"
         THEN <<Head(statements).name>> \o SelectImports(Tail(statements))
         ELSE SelectImports(Tail(statements))

\* ModuleLoader::parse_module on a file the parser accepts
parse_module(name, file) == Module(name, SelectImports(file.statements), file.statements)

\* one piece of work of the loader: op is "find" (find_module_file), "read"
\* (fs::read_to_string) or "parse" (parse_module)
Work(op, name) == [op |-> op, name |-> name]

\* load_module without the cache lookup of its first lines
load_module_uncached(fs, cache, name) ==
    IF ~(name \in DOMAIN fs /\ fs[name].found)
    THEN [ok |-> FALSE, cache |-> cache, module |-> Module(name, <<>>, <<>>),
          work |-> <<Work("find", name)>>]
    ELSE IF ~fs[name].parses
         THEN [ok |-> FALSE, cache |-> cache, module |-> Module(name, <<>>, <<>>),
               work |-> <<Work("find", name), Work("read", name), Work("parse", name)>>]
         ELSE LET m == parse_module(name, fs[name])
              IN  [ok |-> TRUE, cache |-> Put(cache, name, m), module |-> m,
                   work |-> <<Work("find", name), Work("read", name), Work("parse", name)>>]

\* ModuleLoader::load_module: [ok, cache, module, work], work being the
\* find/read/parse steps this call performed
load_module(fs, cache, name) ==
    IF name \in DOMAIN cache
    THEN [ok |-> TRUE, cache |-> cache, module |-> cache[name], work |-> <<>>]
    ELSE IF ~(name \in DOMAIN fs /\ fs[name].found)
         THEN [ok |-> FALSE, cache |-> cache, module |-> Module(name, <<>>, <<>>),
               work |-> <<Work("find", name)>>]
         ELSE IF ~fs[name].parses
              THEN [ok |-> FALSE, cache |-> cache, module |-> Module(name, <<>>, <<>>),
                    work |-> <<Work("find", name), Work("read", name), Work("parse", name)>>]
              ELSE LET m == parse_module(name, fs[name])
                   IN  [ok |-> TRUE, cache |-> Put(cache, name, m), module |-> m,
                        work |-> <<Work("find", name), Work("read", name),
                                   Work("parse", name)>>]

RECURSIVE Concat(_)
Concat(lists) == IF lists = <<>> THEN <<>> ELSE Head(lists) \o Concat(Tail(lists))
RECURSIVE DropImports(_)
DropImports(statements) ==
    IF statements = <<>> THEN <<>>
    ELSE IF Head(statements).t = "Import" THEN DropImports(Tail(statements))
         ELSE <<Head(statements)>> \o DropImports(Tail(statements))

InitLoader ==
    /\ files \in { [m \in ModuleNames |->
                        CASE m = "main" -> fm [] m = "a" -> fa [] OTHER -> fb] :
                   fm \in MainFiles, fa \in AFiles, fb \in BFiles }
    /\ main_ast = <<>>
    /\ loaded_modules = <<>>
    /\ imported_modules = <<>>
    /\ combined_ast = <<>>
    /\ next_stmt = 0
    /\ dpc = "start"
    /\ called = <<>> /\ io = <<>> /\ returned = <<>>
    /\ optIdle
    /\ lexIdle
    /\ extIdle

\* compile_with_modules: read and parse the main file
ParseMain ==
    /\ dpc = "start"
    /\ IF files["main"].parses
       THEN /\ main_ast' = files["main"].statements
            /\ next_stmt' = 1
            /\ dpc' = "imports"
       ELSE /\ dpc' = "error"
            /\ UNCHANGED <<main_ast, next_stmt>>
    /\ UNCHANGED <<files, loaded_modules, imported_modules, combined_ast, called, io, returned,
                   optVars, lexVars, extVars>>

\* one iteration of `for stmt in &main_ast`, load_module included
ImportLoopStep ==
    /\ dpc = "imports"
    /\ next_stmt <= Len(main_ast)
    /\ LET stmt == main_ast[next_stmt] IN
        IF stmt.t = "Import"
        THEN LET r == load_module(files, loaded_modules, stmt.name) IN
             /\ called' = Append(called, stmt.name)
             /\ io' = io \o r.work
             /\ returned' = <<[ok |-> r.ok, module |-> r.module]>>
             /\ IF r.ok
                THEN /\ loaded_modules' = r.cache
                     /\ imported_modules' = Append(imported_modules, r.module.statements)
                     /\ next_stmt' = next_stmt + 1
                     /\ UNCHANGED dpc
                ELSE /\ dpc' = "error"
                     /\ UNCHANGED <<loaded_modules, imported_modules, next_stmt>>
        ELSE /\ next_stmt' = next_stmt + 1
             /\ UNCHANGED <<loaded_modules, imported_modules, dpc, called, io, returned>>
    /\ UNCHANGED <<files, main_ast, combined_ast, optVars, lexVars, extVars>>

\* all_modules = [main_ast] ++ imported_modules, flattened without imports
Flatten ==
    /\ dpc = "imports"
    /\ next_stmt > Len(main_ast)
    /\ LET all_modules == <<main_ast>> \o imported_modules
       IN  combined_ast' = DropImports(Concat(all_modules))
    /\ dpc' = "done"
    /\ UNCHANGED <<files, main_ast, loaded_modules, imported_modules, next_stmt, called, io,
                   returned, optVars, lexVars, extVars>>

NextLoader == ParseMain \/ ImportLoopStep \/ Flatten

SpecLoader == InitLoader /\ [][NextLoader]_vars

(***************************************************************************)
(* Claims about loading and flattening                                     *)
(***************************************************************************)
\* module i has an import statement naming module m
ImportsOf(i, m) ==
    /\ files[i].found /\ files[i].parses
    /\ \E k \in 1..Len(files[i].statements) : files[i].statements[k] = Import(m)
RECURSIVE ReachableModules(_)
ReachableModules(seen) ==
    LET more == {m \in ModuleNames : \E i \in seen : ImportsOf(i, m)} \ seen
    IN  IF more = {} THEN seen ELSE ReachableModules(seen \cup more)
\* the modules reachable from the main file through import statements
Reached == ReachableModules({"main"})
\* m is reachable from i through one or more imports
RECURSIVE ImportsTransitively(_, _, _)
ImportsTransitively(i, m, fuel) ==
    \/ ImportsOf(i, m)
    \/ fuel > 0 /\ \E j \in ModuleNames : ImportsOf(i, j) /\ ImportsTransitively(j, m, fuel - 1)
HasImportCycle == \E m \in Reached : ImportsTransitively(m, m, Cardinality(ModuleNames))
Positions(s) == {p \in 1..Len(combined_ast) : combined_ast[p] = s}

\* C7: in the flattened unit every statement of an imported module comes
\* before every statement of the module that imports it.
C7_ImportedBeforeImporter ==
    dpc = "done" =>
        \A i \in ModuleNames, m \in ModuleNames :
            (i # m /\ ImportsOf(i, m)) =>
                \A p \in Positions(OwnFn(m)), q \in Positions(OwnFn(i)) : p < q

\* C8: when the imports reachable from the main file contain a cycle,
\* loading ends with a diagnostic and no flattened unit is produced.
C8_CyclesRefused == HasImportCycle => dpc # "done"

\* C9: the flattened unit holds the statements of every module reachable
\* from the main file through imports, not only of the direct imports.
C9_TransitiveImportsIncluded ==
    dpc = "done" =>
        \A m \in Reached :
            \A k \in 1..Len(files[m].statements) :
                files[m].statements[k].t # "Import"
                    => Positions(files[m].statements[k]) # {}

\* C10: a module named by more than one import statement of the main file
\* has its statements exactly once in the flattened unit.
C10_DuplicateImportsDeduplicated ==
    dpc = "done" =>
        \A m \in ModuleNames \ {"main"} :
            Cardinality({k \in 1..Len(main_ast) : main_ast[k] = Import(m)}) > 1
                => Cardinality(Positions(OwnFn(m))) = 1

(***************************************************************************)
(* One ModuleLoader under an arbitrary sequence of load_module calls        *)
(***************************************************************************)
\* number of load_module calls that are followed
MaxCalls == 4

CacheMainFiles ==
    { Broken, SourceFile(TRUE, TRUE, <<OwnFn("main")>>),
      SourceFile(TRUE, TRUE, <<Import("a"), OwnFn("main")>>) }

\* ModuleLoader::new() beside a fixed set of files
InitCache ==
    /\ files \in { [m \in ModuleNames |->
                        CASE m = "main" -> fm [] m = "a" -> fa [] OTHER -> fb] :
                   fm \in CacheMainFiles, fa \in AFiles, fb \in BFiles }
    /\ main_ast = <<>>
    /\ loaded_modules = <<>>
    /\ imported_modules = <<>>
    /\ combined_ast = <<>>
    /\ next_stmt = 0
    /\ dpc = "calls"
    /\ called = <<>> /\ io = <<>> /\ returned = <<>>
    /\ optIdle
    /\ lexIdle
    /\ extIdle

\* one call loader.load_module(name)
LoadModule ==
    /\ dpc = "calls"
    /\ Len(called) < MaxCalls
    /\ \E name \in ModuleNames :
        LET r == load_module(files, loaded_modules, name) IN
        /\ called' = Append(called, name)
        /\ io' = io \o r.work
        /\ returned' = <<[ok |-> r.ok, module |-> r.module]>>
        /\ loaded_modules' = r.cache
    /\ UNCHANGED <<files, main_ast, imported_modules, combined_ast, next_stmt, dpc, optVars,
                   lexVars, extVars>>

NextCache == LoadModule

SpecCache == InitCache /\ [][NextCache]_vars

\* how often the loader did the work w
WorkCount(log, w) == Cardinality({k \in 1..Len(log) : log[k] = w})

RECURSIVE replace_dots(_)
\* name.replace('.', "_")
replace_dots(name) ==
    IF Len(name) = 0 THEN ""
    ELSE (IF SubSeq(name, 1, 1) = "." THEN "_" ELSE SubSeq(name, 1, 1))
            \o replace_dots(SubSeq(name, 2, Len(name)))

RECURSIVE escape_wat_string(_)
\* escape_wat_string on printable ASCII: '"' and '\' get a backslash
escape_wat_string(str) ==
    IF Len(str) = 0 THEN ""
    ELSE (IF SubSeq(str, 1, 1) \in {"\"", "\\"} THEN "\\" \o SubSeq(str, 1, 1)
          ELSE SubSeq(str, 1, 1))
            \o escape_wat_string(SubSeq(str, 2, Len(str)))

\* MemoryAllocator::new; strings maps a string to its (ptr, len)
MemoryAllocator_new == [offset |-> 0, strings |-> <<>>]

\* MemoryAllocator::allocate_string
allocate_string(al, str) ==
    IF str \in DOMAIN al.strings THEN al
    ELSE [offset |-> al.offset + Len(str),
          strings |-> Put(al.strings, str, [ptr |-> al.offset, len |-> Len(str)])]

RECURSIVE collect_strings(_, _)
\* `for instr in &func.instructions { if let LoadConstString(s) .. allocate_string(s) }`
collect_strings(instrs, al) ==
    IF instrs = <<>> THEN al
    ELSE collect_strings(Tail(instrs),
            IF Head(instrs).op = "LoadConstString"
            THEN allocate_string(al, Head(instrs).s) ELSE al)

RECURSIVE collect_module_strings(_, _)
\* generate_wasm_module, first pass over all functions
collect_module_strings(functions, al) ==
    IF functions = <<>> THEN al
    ELSE collect_module_strings(Tail(functions),
            collect_strings(Head(functions).instructions, al))

\* MemoryAllocator::get_data_section: one (data (i32.const ptr) "text") each
get_data_section(al) ==
    { [ptr |-> al.strings[str].ptr, text |-> escape_wat_string(str)] :
        str \in DOMAIN al.strings }

\* import collection that knows CallStd only
import_names_std_only(instr) ==
    IF instr.op = "CallStd" THEN {instr.s} ELSE {}

\* the names one instruction contributes to the imports
import_names(instr) ==
    CASE instr.op \in {"CallStd", "CallAI", "CallWeb3"} -> {instr.s}
      [] instr.op = "Panic" -> {"panic"}
      [] OTHER -> {}

\* collect_stdlib_imports: a HashSet of names
collect_stdlib_imports(functions) ==
    UNION { UNION { import_names(functions[f].instructions[k]) :
                      k \in 1..Len(functions[f].instructions) } :
            f \in 1..Len(functions) }

\* generate_import: (import "env" "<env>" (func $<id> ..)) written for `name`
generate_import(name) ==
    [name |-> name,
     env |-> CASE name = "print" -> "print_str"
               [] name = "println" -> "println_str"
               [] is_ai(name) \/ is_web3(name) -> replace_dots(name)
               [] OTHER -> name,
     id |-> IF is_ai(name) \/ is_web3(name) THEN replace_dots(name) ELSE name,
     params |-> IF name = "panic" THEN 2 ELSE import_params(name),
     result |-> (is_stdlib(name) \/ is_ai(name) \/ is_web3(name)) /\ import_has_result(name)]

\* one line of WAT: [w, n, s]
Wat(w, n, s) == [w |-> w, n |-> n, s |-> s]

\* generate_body, the arm of one instruction
generate_instr(instr, al) ==
    CASE instr.op = "LoadConstInt" -> <<Wat("i32.const", instr.n, "")>>
      [] instr.op = "LoadConstString" ->
            IF instr.s \in DOMAIN al.strings
            THEN <<Wat("i32.const", al.strings[instr.s].ptr, ""),
                   Wat("i32.const", al.strings[instr.s].len, "")>>
            ELSE <<Wat("i32.const", 0, ""), Wat("i32.const", 0, "")>>
      [] instr.op = "LoadVar" -> <<Wat("local.get", 0, instr.s)>>
      [] instr.op = "StoreVar" -> <<Wat("local.set", 0, instr.s)>>
      [] instr.op = "LoadLocal" -> <<Wat("local.get", instr.n, "")>>
      [] instr.op = "StoreLocal" -> <<Wat("local.set", instr.n, "")>>
      [] instr.op = "Add" -> <<Wat("i32.add", 0, "")>>
      [] instr.op = "Sub" -> <<Wat("i32.sub", 0, "")>>
      [] instr.op = "Mul" -> <<Wat("i32.mul", 0, "")>>
      [] instr.op = "Div" -> <<Wat("i32.div_s", 0, "")>>
      [] instr.op = "Mod" -> <<Wat("i32.rem_s", 0, "")>>
      [] instr.op = "Eq" -> <<Wat("i32.eq", 0, "")>>
      [] instr.op = "Ne" -> <<Wat("i32.ne", 0, "")>>
      [] instr.op = "Lt" -> <<Wat("i32.lt_s", 0, "")>>
      [] instr.op = "Le" -> <<Wat("i32.le_s", 0, "")>>
      [] instr.op = "Gt" -> <<Wat("i32.gt_s", 0, "")>>
      [] instr.op = "Ge" -> <<Wat("i32.ge_s", 0, "")>>
      [] instr.op = "Jump" -> <<Wat("br", instr.n, "")>>
      [] instr.op = "JumpIfFalse" -> <<Wat("i32.eqz", 0, ""), Wat("br_if", instr.n, "")>>
      [] instr.op = "Call" -> <<Wat("call", 0, replace_dots(instr.s))>>
      [] instr.op = "CallStd" -> <<Wat("call", 0, instr.s)>>
      [] instr.op \in {"CallAI", "CallWeb3"} -> <<Wat("call", 0, replace_dots(instr.s))>>
      [] instr.op = "Return" -> <<Wat("return", 0, "")>>
      [] instr.op = "Panic" -> <<Wat("call", 0, "panic"), Wat("unreachable", 0, "")>>
      [] OTHER -> <<>>

\* generate_body: the lines of every instruction, in order
generate_body(instrs, al) == [k \in 1..Len(instrs) |-> generate_instr(instrs[k], al)]

\* generate_function
generate_function(name, instrs, al, param_count, local_count) ==
    [id |-> replace_dots(name),
     params |-> param_count,
     locals |-> IF local_count > param_count THEN local_count - param_count ELSE 0,
     body |-> generate_body(instrs, al),
     export |-> name]

\* generate_wasm_module, the imports written in the order `order` in which
\* the HashSet is iterated
generate_wasm_module(functions, order) ==
    [data |-> get_data_section(collect_module_strings(functions, MemoryAllocator_new)),
     imports |-> [k \in 1..Len(order) |-> generate_import(order[k])],
     funcs |-> [f \in 1..Len(functions) |->
                  generate_function(functions[f].name, functions[f].instructions,
                      collect_strings(functions[f].instructions, MemoryAllocator_new),
                      functions[f].param_count, functions[f].local_count)]]

(***************************************************************************)
(* The driver from the flattened unit to the WAT text: lower,               *)
(* optimize_module, generate_wasm_module (compile_modules.rs 117-141)       *)
(***************************************************************************)
\* statements of a generated main body
MaxEmitBody == 2

\* math.ax: fn add(a, b) { return a + b }   fn say() { print("cd") }
MathFile ==
    <<Function("add", <<"a", "b">>,
               <<Return(Binary("Add", Identifier("a"), Identifier("b")))>>),
      Function("say", <<>>, <<Expression(Call("print", <<String("cd")>>))>>)>>

EmitStmts ==
    { Expression(ModuleCall("math", "add", <<Number(2), Number(3)>>)),
      Return(ModuleCall("math", "add", <<Number(2), Number(3)>>)),
      Expression(Call("add", <<Number(2), Number(3)>>)),
      Expression(Call("say", <<>>)),
      Expression(Call("print", <<String("ab")>>)),
      Expression(Call("print", <<String("cd")>>)),
      Expression(Call("time", <<>>)),
      Expression(ModuleCall("web3", "wallet", <<>>)),
      Expression(ModuleCall("ai", "generate", <<String("ab")>>)),
      Panic(String("ab")) }

\* the flattened unit the driver builds from main.ax (`import math` and
\* fn main) and math.ax
EmitPrograms ==
    { DropImports(Concat(<<
          <<Import("math"), Function("main", <<>>, body)>>, MathFile >>)) :
        body \in SeqsUpTo(EmitStmts, MaxEmitBody) }

\* the orders in which a HashSet with the elements of S can be iterated
Orders(S) ==
    { o \in [1..Cardinality(S) -> S] : \A i, j \in 1..Cardinality(S) : o[i] = o[j] => i = j }

InitEmit ==
    /\ ast \in EmitPrograms
    /\ checks \in BOOLEAN
    /\ module = <<>>
    /\ prev = <<>>
    /\ stage = "lower"
    /\ cursor = 0
    /\ lexIdle
    /\ loadIdle
    /\ extIdle

\* let wasm_code = generate_wasm_module(&optimized)
Emit ==
    /\ stage = "done"
    /\ \E order \in Orders(collect_stdlib_imports(module)) :
          wat' = generate_wasm_module(module, order)
    /\ stage' = "emitted"
    /\ UNCHANGED <<ast, module, prev, cursor, checks, lexVars, loadVars, tcVars, parsed>>

NextEmit == Lower \/ ConstFold \/ DeadCodeElim \/ Inline \/ Emit

SpecEmit == InitEmit /\ [][NextEmit]_vars

\* the identifiers the emitted module defines as functions
DefinedFuncs == { wat.funcs[f].id : f \in 1..Len(wat.funcs) }

\* C12: every `call $x` emitted for a Call instruction names a function that
\* the emitted module defines; in particular the call lowered from
\* math.add(2, 3) finds a definition $math_add exported as "math.add".
C12_QualifiedCallResolves ==
    stage = "emitted" =>
        \A f \in 1..Len(module) : \A k \in 1..Len(module[f].instructions) :
            module[f].instructions[k].op = "Call" =>
                /\ wat.funcs[f].body[k] = <<Wat("call", 0,
                                               replace_dots(module[f].instructions[k].s))>>
                /\ replace_dots(module[f].instructions[k].s) \in DefinedFuncs

\* the strings the LoadConstString instructions of the module use
UsedStrings ==
    UNION { { module[f].instructions[k].s :
                k \in { i \in 1..Len(module[f].instructions) :
                          module[f].instructions[i].op = "LoadConstString" } } :
            f \in 1..Len(module) }

\* C13: the (ptr, len) each LoadConstString pushes is the offset and byte
\* length at which its string is declared in the data section, and the data
\* section declares exactly the distinct strings in use.
C13_InternedStringsConsistent ==
    stage = "emitted" =>
        /\ \A f \in 1..Len(module) : \A k \in 1..Len(module[f].instructions) :
              module[f].instructions[k].op = "LoadConstString" =>
                 LET str == module[f].instructions[k].s IN
                 /\ Len(wat.funcs[f].body[k]) = 2
                 /\ [ptr |-> wat.funcs[f].body[k][1].n, text |-> escape_wat_string(str)]
                        \in wat.data
                 /\ wat.funcs[f].body[k][2].n = Len(str)
        /\ { d.text : d \in wat.data } = { escape_wat_string(str) : str \in UsedStrings }
        /\ Cardinality(wat.data) = Cardinality(UsedStrings)

\* the import declarations written for `name`, and those declaring $id
ImportsNamed(name) == { i \in 1..Len(wat.imports) : wat.imports[i].name = name }
ImportsDeclaring(id) == { i \in 1..Len(wat.imports) : wat.imports[i].id = id }

MaxSlotBody == 2

SlotCallees ==
    Callees \cup
    { Function("dbl", <<"a">>, <<Let("t", Identifier("a")), Return(Identifier("t"))>>) }

SlotStmts(callee) ==
    { Let("x", Number(1)), Let("x", Identifier("n")), Let("y", CallOf(callee)),
      Assign("x", Number(2)), Assign("n", CallOf(callee)), Assign("z", Number(1)),
      Return(Identifier("x")), Return(CallOf(callee)), Expression(CallOf(callee)),
      If(Identifier("n"), <<Let("y", Number(1))>>),
      While(Identifier("n"), <<Assign("n", Number(0))>>) }

SlotPrograms ==
    UNION { { <<callee, Function("main", <<"n">>, body)>> :
                body \in SeqsUpTo(SlotStmts(callee), MaxSlotBody) } :
            callee \in SlotCallees }

InitSlots ==
    /\ ast \in SlotPrograms
    /\ checks \in BOOLEAN
    /\ module = <<>>
    /\ prev = <<>>
    /\ stage = "lower"
    /\ cursor = 0
    /\ lexIdle
    /\ loadIdle
    /\ extIdle

SpecSlots == InitSlots /\ [][Next]_vars

\* the local slots of `func` are below its local_count
SlotsInRange(func) ==
    \A k \in 1..Len(func.instructions) :
        func.instructions[k].op \in {"LoadLocal", "StoreLocal"} =>
            0 <= func.instructions[k].n /\ func.instructions[k].n < func.local_count

\* C15: in every function produced by lower, and in every function after
\* inline_small_functions (and the passes around it) ran, each LoadLocal(k)
\* and StoreLocal(k) has 0 <= k < local_count.
C15_LocalSlotsInRange ==
    \A f \in 1..Len(module) : SlotsInRange(module[f])

\* inlining just gave main new slots above its own, and main uses them
C15_Witness ==
    /\ JustInlined
    /\ \E f \in 1..Len(module) :
          /\ module[f].name = "main"
          /\ prev[f].local_count >= 2
          /\ module[f].local_count > prev[f].local_count
          /\ \E k \in 1..Len(module[f].instructions) :
                /\ module[f].instructions[k].op = "LoadLocal"
                /\ module[f].instructions[k].n >= prev[f].local_count

(***************************************************************************)
(* lower() alone, on bodies of nested if/while                              *)
(***************************************************************************)
\* statements of a generated main body
MaxJumpBody == 2

JumpCond == Binary("Lt", Identifier("n"), Number(2))
Plain == { Expression(Call("time", <<>>)), Return(Number(1)) }
\* statements with one level of if/while
Nested1 ==
    Plain
    \cup { If(JumpCond, <<s>>) : s \in Plain }
    \cup { IfElse(JumpCond, <<s>>, <<t>>) : s \in Plain, t \in Plain }
    \cup { While(Identifier("n"), <<s>>) : s \in Plain }
\* statements with up to two levels
Nested2 ==
    Plain
    \cup { If(Identifier("n"), <<s, Expression(Call("time", <<>>))>>) : s \in Nested1 }
    \cup { IfElse(JumpCond, <<s>>, <<t>>) : s \in Nested1,
              t \in { Return(Number(0)), While(Identifier("n"), <<Return(Number(1))>>) } }
    \cup { While(JumpCond, <<s>>) : s \in Nested1 }

JumpPrograms ==
    { <<Function("main", <<"n">>, body)>> : body \in SeqsUpTo(Nested2, MaxJumpBody) }

InitLower ==
    /\ ast \in JumpPrograms
    /\ checks = FALSE
    /\ module = <<>>
    /\ prev = <<>>
    /\ stage = "lower"
    /\ cursor = 0
    /\ lexIdle
    /\ loadIdle
    /\ extIdle

NextLower == Lower

SpecLower == InitLower /\ [][NextLower]_vars

\* lower() has just run
JustLowered == stage = "fold1" /\ cursor = 1

\* the instructions lower_statement produces for the body of function f
LoweredBody(f) ==
    lower_body(ast[f].body, 1,
        [instructions |-> <<>>,
         ctx |-> alloc_params(ast[f].params, 1, LowerCtx_new)]).instructions

\* C16: every function produced by lower ends with Return: its instructions
\* are the lowered body, followed by exactly LoadConstInt(0); Return when the
\* lowered body is empty or does not end with Return, and by nothing when it
\* does; an empty body gives exactly [LoadConstInt(0), Return].
C16_LowerEndsWithReturn ==
    JustLowered =>
        \A f \in 1..Len(module) :
            LET ins == module[f].instructions
                body == LoweredBody(f)
                closing == <<IRInstr("LoadConstInt", 0, ""), Op("Return")>>
            IN  /\ Len(ins) > 0 /\ ins[Len(ins)] = Op("Return")
                /\ (body = <<>> \/ body[Len(body)].op # "Return") => ins = body \o closing
                /\ (body # <<>> /\ body[Len(body)].op = "Return") => ins = body
                /\ ast[f].body = <<>> => ins = closing

\* a body whose last statement is an if/else ending with Return, after a
\* while: nothing is appended to it
C16_Witness ==
    /\ JustLowered
    /\ Len(ast[1].body) = 2
    /\ ast[1].body[2].t = "If"
    /\ ast[1].body[1].t = "While"
    /\ module[1].instructions = LoweredBody(1)

\* number of instructions an expression lowers to
RECURSIVE ExprSize(_)
ExprSize(expr) ==
    CASE expr.e \in {"Number", "String", "Identifier"} -> 1
      [] expr.e \in {"Call", "ModuleCall"} ->
            LET RECURSIVE Sum(_)
                Sum(k) == IF k > Len(expr.args) THEN 0 ELSE ExprSize(expr.args[k]) + Sum(k + 1)
            IN  Sum(1) + 1
      [] OTHER -> ExprSize(expr.args[1]) + ExprSize(expr.args[2]) + 1

\* Where the jumps of a statement list belong, from the shape of the
\* statements alone: the list starts at instruction index p with the names
\* in `bound` declared.  The result is [next, bound, jumps]: the index after
\* the list, the names declared then, and the expected jumps [at, op, target].
RECURSIVE ExpectedOfBody(_, _, _, _)
RECURSIVE ExpectedOfStmt(_, _, _)
ExpectedOfBody(body, k, p, bound) ==
    IF k > Len(body) THEN [next |-> p, bound |-> bound, jumps |-> {}]
    ELSE LET one == ExpectedOfStmt(body[k], p, bound)
             rest == ExpectedOfBody(body, k + 1, one.next, one.bound)
         IN  [next |-> rest.next, bound |-> rest.bound, jumps |-> one.jumps \cup rest.jumps]
ExpectedOfStmt(stmt, p, bound) ==
    CASE stmt.t = "Expression" ->
            [next |-> p + ExprSize(stmt.value), bound |-> bound, jumps |-> {}]
      [] stmt.t \in {"Return", "Panic"} ->
            [next |-> p + ExprSize(stmt.value) + 1, bound |-> bound, jumps |-> {}]
      [] stmt.t = "Let" ->
            [next |-> p + ExprSize(stmt.value) + 1, bound |-> bound \cup {stmt.name},
             jumps |-> {}]
      [] stmt.t = "Assign" ->
            [next |-> IF stmt.name \in bound THEN p + ExprSize(stmt.value) + 1 ELSE p,
             bound |-> bound, jumps |-> {}]
      [] stmt.t = "If" /\ ~stmt.has_else ->
            LET at == p + ExprSize(stmt.value)
                then == ExpectedOfBody(stmt.body, 1, at + 1, bound)
            IN  [next |-> then.next, bound |-> then.bound,
                 jumps |-> then.jumps
                     \cup {[at |-> at, op |-> "JumpIfFalse", target |-> then.next]}]
      [] stmt.t = "If" /\ stmt.has_else ->
            LET at == p + ExprSize(stmt.value)
                then == ExpectedOfBody(stmt.body, 1, at + 1, bound)
                else == ExpectedOfBody(stmt.else_body, 1, then.next + 1, then.bound)
            IN  [next |-> else.next, bound |-> else.bound,
                 jumps |-> then.jumps \cup else.jumps
                     \cup {[at |-> at, op |-> "JumpIfFalse", target |-> then.next + 1],
                           [at |-> then.next, op |-> "Jump", target |-> else.next]}]
      [] stmt.t = "While" ->
            LET at == p + ExprSize(stmt.value)
                body == ExpectedOfBody(stmt.body, 1, at + 1, bound)
            IN  [next |-> body.next + 1, bound |-> body.bound,
                 jumps |-> body.jumps
                     \cup {[at |-> at, op |-> "JumpIfFalse", target |-> body.next + 1],
                           [at |-> body.next, op |-> "Jump", target |-> p]}]
      [] OTHER -> [next |-> p, bound |-> bound, jumps |-> {}]

\* the jumps of a function as lowered: [at, op, target], at 0-based
JumpsOf(ins) ==
    { [at |-> k - 1, op |-> ins[k].op, target |-> ins[k].n] :
        k \in { i \in 1..Len(ins) : ins[i].op \in {"Jump", "JumpIfFalse"} } }

\* C17: after lowering, the jumps of every function are exactly the ones
\* the nesting of its if/while statements calls for: JumpIfFalse to the
\* first instruction of the else body (or one past the then body), the Jump
\* after the then body to just after the else body, a loop's trailing Jump
\* to its first condition instruction and its JumpIfFalse to just after
\* that Jump.
C17_JumpsPatched ==
    JustLowered =>
        \A f \in 1..Len(module) :
            JumpsOf(module[f].instructions)
                = ExpectedOfBody(ast[f].body, 1, 0, {ast[f].params[k] : k \in 1..Len(ast[f].params)}).jumps

\* an if/else with a while in both branches, below another statement
C17_Witness ==
    /\ JustLowered
    /\ Len(ast[1].body) = 2
    /\ ast[1].body[2].t = "If" /\ ast[1].body[2].has_else
    /\ ast[1].body[2].body[1].t = "While"
    /\ ast[1].body[2].else_body[1].t = "While"
    /\ Cardinality(JumpsOf(module[1].instructions)) >= 6

(***************************************************************************)
(* Type checker (typechecker.rs).  A checker is [symbols, functions,        *)
(* errors]; a type is one of the names of types::Type.                      *)
(***************************************************************************)
Type == {"Int", "Float", "Bool", "String", "Text", "Void", "Unknown"}

ArithmeticOps == {"Add", "Sub", "Mul", "Div", "Mod"}
ComparisonOps == {"Eq", "Ne", "Lt", "Le", "Gt", "Ge"}

\* FunctionSignature
FunctionSignature(params, return_type) == [params |-> params, return_type |-> return_type]

\* TypeChecker::new
TypeChecker_new == [symbols |-> <<>>, functions |-> <<>>, errors |-> <<>>]

\* one "Type error: .." message: its kind, the function or variable it
\* names, the number it names, and the types it names
TypeError(kind, name, n, left, right) ==
    [kind |-> kind, name |-> name, n |-> n, left |-> left, right |-> right]

\* self.errors.push(..)
push_error(c, err) == [c EXCEPT !.errors = Append(@, err)]

\* HashMap::remove
Remove(f, k) == [x \in (DOMAIN f) \ {k} |-> f[x]]

RECURSIVE check_expr(_, _)
RECURSIVE check_args(_, _, _, _, _)
\* the `for (i, arg) in args.iter().enumerate()` loop of the Call arm
check_args(args, i, name, params, c) ==
    IF i >= Len(args) THEN c
    ELSE LET r == check_expr(args[i + 1], c)
             c2 == IF i < Len(params) /\ r.type # params[i + 1] /\ r.type # "Unknown"
                   THEN push_error(r.c, TypeError("argument", name, i, params[i + 1], r.type))
                   ELSE r.c
         IN  check_args(args, i + 1, name, params, c2)

\* TypeChecker::check_expr: [type, c]
check_expr(expr, c) ==
    CASE expr.e = "Number" -> [type |-> "Int", c |-> c]
      [] expr.e = "String" -> [type |-> "String", c |-> c]
      [] expr.e = "Identifier" ->
            [type |-> IF expr.s \in DOMAIN c.symbols THEN c.symbols[expr.s] ELSE "Unknown",
             c |-> c]
      [] expr.e = "Call" ->
            IF expr.s \in DOMAIN c.functions
            THEN LET sig == c.functions[expr.s]
                     c1 == IF Len(expr.args) # Len(sig.params)
                           THEN push_error(c, TypeError("arity", expr.s, Len(expr.args),
                                                        "", ""))
                           ELSE c
                 IN  [type |-> sig.return_type,
                      c |-> check_args(expr.args, 0, expr.s, sig.params, c1)]
            ELSE [type |-> "Int", c |-> c]
      [] expr.e \in ArithmeticOps ->
            LET l == check_expr(expr.args[1], c)
                r == check_expr(expr.args[2], l.c)
            IN  IF l.type = "Int" /\ r.type = "Int"
                THEN [type |-> "Int", c |-> r.c]
                ELSE [type |-> "Unknown",
                      c |-> push_error(r.c, TypeError("arithmetic", "", 0, l.type, r.type))]
      [] expr.e \in ComparisonOps ->
            LET l == check_expr(expr.args[1], c)
                r == check_expr(expr.args[2], l.c)
            IN  IF l.type = "Int" /\ r.type = "Int"
                THEN [type |-> "Bool", c |-> r.c]
                ELSE [type |-> "Bool",
                      c |-> push_error(r.c, TypeError("comparison", "", 0, l.type, r.type))]

RECURSIVE collect_return_types_in_body(_, _, _)
\* TypeChecker::collect_return_types_in_body from statement k on: [returns, c]
collect_return_types_in_body(body, k, c) ==
    IF k > Len(body) THEN [returns |-> <<>>, c |-> c]
    ELSE LET stmt == body[k]
             here ==
                CASE stmt.t = "Return" ->
                        LET r == check_expr(stmt.value, c)
                        IN  [returns |-> <<r.type>>, c |-> r.c]
                  [] stmt.t = "If" ->
                        LET a == collect_return_types_in_body(stmt.body, 1, c) IN
                        IF stmt.has_else
                        THEN LET b == collect_return_types_in_body(stmt.else_body, 1, a.c)
                             IN  [returns |-> a.returns \o b.returns, c |-> b.c]
                        ELSE a
                  [] stmt.t = "While" -> collect_return_types_in_body(stmt.body, 1, c)
                  [] OTHER -> [returns |-> <<>>, c |-> c]
             rest == collect_return_types_in_body(body, k + 1, here.c)
         IN  [returns |-> here.returns \o rest.returns, c |-> rest.c]

RECURSIVE insert_params(_, _, _)
\* `for param in params { self.symbols.insert(param.clone(), Type::Int) }`
insert_params(symbols, params, k) ==
    IF k > Len(params) THEN symbols
    ELSE insert_params(Put(symbols, params[k], "Int"), params, k + 1)

RECURSIVE remove_params(_, _, _)
\* `for param in params { self.symbols.remove(param) }`
remove_params(symbols, params, k) ==
    IF k > Len(params) THEN symbols
    ELSE remove_params(Remove(symbols, params[k]), params, k + 1)

\* the return type the parser gives every function (Type::Void)
ParsedReturnType == "Void"

\* the loop over `returns` in the Function arm: TRUE when no entry differs
\* from the first one and from Unknown
consistent_returns(returns) ==
    \A k \in 1..Len(returns) : ~(returns[k] # returns[1] /\ returns[k] # "Unknown")

\* a condition type that is neither Int, Bool nor Unknown is an error
check_condition(kind, r) ==
    IF r.type # "Int" /\ r.type # "Bool" /\ r.type # "Unknown"
    THEN push_error(r.c, TypeError(kind, "", 0, r.type, ""))
    ELSE r.c

RECURSIVE check_stmt(_, _)
RECURSIVE check_body(_, _, _)
\* the `for stmt in body { self.check_stmt(stmt) }` loops
check_body(body, k, c) ==
    IF k > Len(body) THEN c ELSE check_body(body, k + 1, check_stmt(body[k], c))

\* TypeChecker::check_stmt
check_stmt(stmt, c) ==
    CASE stmt.t = "Function" ->
            LET param_types == [k \in 1..Len(stmt.params) |-> "Int"]
                c1 == [c EXCEPT
                         !.functions = Put(@, stmt.name,
                                           FunctionSignature(param_types, ParsedReturnType)),
                         !.symbols = insert_params(Put(@, stmt.name, ParsedReturnType),
                                                   stmt.params, 1)]
                c2 == check_body(stmt.body, 1, c1)
                col == collect_return_types_in_body(stmt.body, 1, c2)
                returns == col.returns
                ok == returns = <<>> \/ consistent_returns(returns)
                inferred_return == IF returns = <<>> THEN "Void"
                                   ELSE IF ok THEN returns[1] ELSE "Unknown"
                c3 == IF ok THEN col.c
                      ELSE push_error(col.c, TypeError("inconsistent return types",
                                                       stmt.name, Len(returns), "", ""))
            IN  [c3 EXCEPT
                   !.functions = [@ EXCEPT ![stmt.name].return_type = inferred_return],
                   !.symbols = remove_params(Put(@, stmt.name, inferred_return),
                                             stmt.params, 1)]
      [] stmt.t = "Expression" -> c
      [] stmt.t = "Let" ->
            LET r == check_expr(stmt.value, c)
            IN  [r.c EXCEPT !.symbols = Put(@, stmt.name, r.type)]
      [] stmt.t = "If" ->
            LET c1 == check_condition("if condition", check_expr(stmt.value, c))
                c2 == check_body(stmt.body, 1, c1)
            IN  IF stmt.has_else THEN check_body(stmt.else_body, 1, c2) ELSE c2
      [] stmt.t = "Assign" ->
            LET c1 == IF stmt.name \notin DOMAIN c.symbols
                      THEN push_error(c, TypeError("not defined", stmt.name, 0, "", ""))
                      ELSE c
                r == check_expr(stmt.value, c1)
                var_type == IF stmt.name \in DOMAIN r.c.symbols THEN r.c.symbols[stmt.name]
                            ELSE "Unknown"
            IN  IF var_type # "Unknown" /\ r.type # "Unknown" /\ var_type # r.type
                THEN push_error(r.c, TypeError("cannot assign", stmt.name, 0, r.type, var_type))
                ELSE r.c
      [] stmt.t = "While" ->
            check_body(stmt.body, 1,
                       check_condition("while condition", check_expr(stmt.value, c)))
      [] stmt.t = "Return" -> check_expr(stmt.value, c).c
      [] stmt.t = "Panic" ->
            LET r == check_expr(stmt.value, c)
            IN  IF r.type # "String" /\ r.type # "Unknown"
                THEN push_error(r.c, TypeError("panic", "", 0, r.type, ""))
                ELSE r.c

(***************************************************************************)
(* The type checker as a state machine: TypeChecker::check runs            *)
(* check_stmt on the top-level statements one after the other and then     *)
(* returns Ok or Err(errors).  A program declares f(a) { return a } and   *)
(* then main(n) with one of the bodies below.                              *)
(***************************************************************************)
MaxTypeBody == 2

TypeAtoms == {Number(1), String("s"), Identifier("u"), Identifier("n")}

\* one operator applied to two atoms
TypeOps1 == {Binary(op, a, b) : op \in {"Add", "Lt"}, a \in TypeAtoms, b \in TypeAtoms}

\* .. nested as the left or the right operand of a second operator
TypeOps2 ==
    {Binary(op, x, Number(2)) : op \in {"Sub", "Gt"}, x \in TypeOps1}
        \cup {Binary(op, Number(2), x) : op \in {"Sub", "Gt"}, x \in TypeOps1}

\* .. and of a third
TypeOps3 == {Binary("Mul", Number(3), y) : y \in TypeOps2}

TypeExprs == TypeOps1 \cup TypeOps2 \cup TypeOps3

TypeArgs == {<<Number(1)>>, <<String("s")>>, <<Number(1), Number(2)>>}

CallStmts ==
    UNION { { Let("v", Call("f", a)),
              Assign("n", Call("f", a)),
              Return(Call("f", a)),
              Expression(Call("f", a)),
              If(Call("f", a), <<Return(Number(1))>>),
              While(Call("f", a), <<Expression(Call("f", <<Number(1)>>))>>) }
            : a \in TypeArgs }

ReturnStmts ==
    { Return(Number(1)),
      Return(String("s")),
      Return(Identifier("u")),
      If(Identifier("n"), <<Return(String("s"))>>),
      IfElse(Identifier("n"), <<Return(Identifier("u"))>>, <<Return(Number(1))>>),
      While(Identifier("n"), <<Return(Number(1))>>) }

TypeBodies ==
    {<<Let("v", e)>> : e \in TypeExprs}
        \cup (SeqsUpTo(CallStmts \cup ReturnStmts, MaxTypeBody) \ {<<>>})

TypePrograms ==
    { << Function("f", <<"a">>, <<Return(Identifier("a"))>>),
         Function("main", <<"n">>, body) >> : body \in TypeBodies }

InitTypes ==
    /\ ast \in TypePrograms
    /\ checker = TypeChecker_new
    /\ checked = 0
    /\ tpc = "check"
    /\ checks = FALSE
    /\ module = <<>>
    /\ prev = <<>>
    /\ stage = "idle"
    /\ cursor = 0
    /\ lexIdle
    /\ loadIdle
    /\ wat = <<>>
    /\ parsed = <<>>

\* one turn of `for stmt in stmts { self.check_stmt(stmt) }`
CheckStmt ==
    /\ tpc = "check"
    /\ checked < Len(ast)
    /\ checker' = check_stmt(ast[checked + 1], checker)
    /\ checked' = checked + 1
    /\ UNCHANGED <<tpc, optVars, lexVars, loadVars, wat, parsed>>

\* `if self.errors.is_empty() { Ok(()) } else { Err(self.errors.clone()) }`
TypeReturn ==
    /\ tpc = "check"
    /\ checked = Len(ast)
    /\ tpc' = IF checker.errors = <<>> THEN "ok" ELSE "err"
    /\ UNCHANGED <<checker, checked, optVars, lexVars, loadVars, wat, parsed>>

NextTypes == CheckStmt \/ TypeReturn

SpecTypes == InitTypes /\ [][NextTypes]_vars

\* check() has returned
TypeChecked == tpc \in {"ok", "err"}

\* the body of main
MainBody == ast[2].body

(***************************************************************************)
(* Reference typing of an expression of main: n is the Int parameter, u    *)
(* is not in the symbol table, f returns Int.  An operation is ill-typed   *)
(* when both operand types are known and they are not both Int; its        *)
(* result is Unknown (arithmetic) or Bool (comparison).                    *)
(***************************************************************************)
RECURSIVE StaticType(_)
StaticType(e) ==
    CASE e.e = "Number" -> "Int"
      [] e.e = "String" -> "String"
      [] e.e = "Identifier" -> IF e.s = "n" THEN "Int" ELSE "Unknown"
      [] e.e = "Call" -> "Int"
      [] e.e \in ArithmeticOps ->
            IF StaticType(e.args[1]) = "Int" /\ StaticType(e.args[2]) = "Int"
            THEN "Int" ELSE "Unknown"
      [] e.e \in ComparisonOps -> "Bool"

RECURSIVE IllTypedOps(_)
\* the number of ill-typed operations in e
IllTypedOps(e) ==
    IF e.e \in ArithmeticOps \cup ComparisonOps
    THEN LET l == StaticType(e.args[1])
             r == StaticType(e.args[2])
             here == IF l # "Unknown" /\ r # "Unknown" /\ ~(l = "Int" /\ r = "Int")
                     THEN 1 ELSE 0
         IN  here + IllTypedOps(e.args[1]) + IllTypedOps(e.args[2])
    ELSE 0

\* main is `let v = <operators over atoms>`
ExprProgram == Len(MainBody) = 1 /\ MainBody[1].t = "Let" /\ MainBody[1].value \in TypeExprs

\* C18: an operand of type Unknown never causes a type error: once check()
\* has returned for a main whose only statement is a let of nested
\* arithmetic and comparison operators with at most one ill-typed
\* operation, the error list holds exactly one error per ill-typed
\* operation (none, or one), however deeply the operation is nested.
C18_UnknownNeverCascades ==
    (TypeChecked /\ ExprProgram /\ IllTypedOps(MainBody[1].value) <= 1)
        => Len(checker.errors) = IllTypedOps(MainBody[1].value)

RECURSIVE ReturnExprs(_, _)
\* the expressions of the Return statements of a body, nested if and while
\* bodies included, in source order
ReturnExprs(body, k) ==
    IF k > Len(body) THEN <<>>
    ELSE LET stmt == body[k]
             here == CASE stmt.t = "Return" -> <<stmt.value>>
                       [] stmt.t = "If" ->
                            ReturnExprs(stmt.body, 1) \o ReturnExprs(stmt.else_body, 1)
                       [] stmt.t = "While" -> ReturnExprs(stmt.body, 1)
                       [] OTHER -> <<>>
         IN  here \o ReturnExprs(body, k + 1)

\* the types of the returns of main, and those that are not Unknown
ReturnTypes == [k \in 1..Len(ReturnExprs(MainBody, 1)) |-> StaticType(ReturnExprs(MainBody, 1)[k])]
KnownReturnTypes == {ReturnTypes[k] : k \in 1..Len(ReturnTypes)} \ {"Unknown"}

\* the 'inconsistent return types' errors reported for main
InconsistentErrors ==
    {k \in 1..Len(checker.errors) :
        /\ checker.errors[k].kind = "inconsistent return types"
        /\ checker.errors[k].name = "main"}

\* C19: once check() has returned, the registered return type of main is
\* Void when its body (nested if and while bodies included) has no Return;
\* when the collected return types agree once the Unknown entries are
\* ignored, wherever those entries stand in the list, it is the common type
\* and no 'inconsistent return types' error is reported; and when they
\* disagree exactly one such error is reported for main.
C19_ReturnTypeInference ==
    TypeChecked =>
        /\ ReturnTypes = <<>> => checker.functions["main"].return_type = "Void"
        /\ (ReturnTypes # <<>> /\ Cardinality(KnownReturnTypes) = 1) =>
              /\ checker.functions["main"].return_type \in KnownReturnTypes
              /\ InconsistentErrors = {}
        /\ (ReturnTypes # <<>> /\ KnownReturnTypes = {}) =>
              /\ checker.functions["main"].return_type = "Unknown"
              /\ InconsistentErrors = {}
        /\ Cardinality(KnownReturnTypes) >= 2 => Cardinality(InconsistentErrors) = 1

\* the violations of one call of the registered f(a): the arity error when
\* the call does not have one argument, then the error of each argument
\* in a parameter position whose type is known and is not Int
CallViolations(e) ==
    IF e.e = "Call" /\ e.s = "f"
    THEN (IF Len(e.args) # 1 THEN <<TypeError("arity", "f", Len(e.args), "", "")>>
          ELSE <<>>)
         \o (IF e.args # <<>> /\ StaticType(e.args[1]) \notin {"Int", "Unknown"}
             THEN <<TypeError("argument", "f", 0, "Int", StaticType(e.args[1]))>>
             ELSE <<>>)
    ELSE <<>>

RECURSIVE BodyViolations(_, _)
\* the violations of the calls of a body in source order: the call is the
\* initializer of a let, the value of an assignment, the condition of an
\* if or a while, the value of a return, or an expression statement
BodyViolations(body, k) ==
    IF k > Len(body) THEN <<>>
    ELSE LET stmt == body[k]
             here == CASE stmt.t \in {"Let", "Assign", "Return", "Expression"} ->
                            CallViolations(stmt.value)
                       [] stmt.t \in {"If", "While"} ->
                            CallViolations(stmt.value)
                                \o BodyViolations(stmt.body, 1)
                                \o BodyViolations(stmt.else_body, 1)
                       [] OTHER -> <<>>
         IN  here \o BodyViolations(body, k + 1)

RECURSIVE IsSubsequence(_, _, _, _)
\* xs from i on can be found, in order, in ys from j on
IsSubsequence(xs, i, ys, j) ==
    IF i > Len(xs) THEN TRUE
    ELSE IF j > Len(ys) THEN FALSE
    ELSE IF xs[i] = ys[j] THEN IsSubsequence(xs, i + 1, ys, j + 1)
    ELSE IsSubsequence(xs, i, ys, j + 1)

\* C20: every call of the registered function f in the body of main is
\* checked for arity and argument types wherever it occurs (let
\* initializer, assignment, condition, return, expression statement): once
\* check() has returned, the violations of the calls are all in the error
\* list, in source order, and check() has returned Err when there is one.
C20_EveryCallChecked ==
    TypeChecked =>
        /\ IsSubsequence(BodyViolations(MainBody, 1), 1, checker.errors, 1)
        /\ BodyViolations(MainBody, 1) # <<>> => tpc = "err"

(***************************************************************************)
(* Claims about inlining followed by the second folding round              *)
(***************************************************************************)
\* main(n) is `return callee(2, ..)` for the arithmetic callee id or add
ConstantCall ==
    /\ ast[1].name \in {"id", "add"}
    /\ ast[2].body = <<Return(CallOf(ast[1]))>>

\* the value the constant call returns: id(2) = 2, add(2, 3) = 5
ConstantCallValue == IF ast[1].name = "id" THEN 2 ELSE 2 + 3

\* C21: inlining followed by the second folding round collapses a call
\* with integer-constant arguments to an inlinable arithmetic callee: after
\* optimize_module the caller has no Call instruction, its local_count is
\* the caller's locals plus the callee's locals, and its instructions are
\* exactly LoadConstInt(value); Return.
C21_InlinedConstantCallCollapses ==
    (stage = "done" /\ ConstantCall) =>
        /\ \A k \in 1..Len(module[2].instructions) : module[2].instructions[k].op # "Call"
        /\ module[2].local_count = lower(ast)[2].local_count + lower(ast)[1].local_count
        /\ module[2].instructions
              = <<IRInstr("LoadConstInt", ConstantCallValue, ""), Op("Return")>>

(***************************************************************************)
(* Constant expressions of every shape: main is `return E` with E built    *)
(* from integer literals and foldable operators                            *)
(***************************************************************************)
\* number of operators in a generated constant expression
MaxOps == 3

ConstLeaves == {Number(1), Number(2)}
ConstOps == {"Add", "Mul"}

RECURSIVE ConstExprs(_)
\* the constant expressions with exactly n operators, of every shape
ConstExprs(n) ==
    IF n = 0 THEN ConstLeaves
    ELSE UNION { { Binary(op, l, r) :
                     op \in ConstOps, l \in ConstExprs(k), r \in ConstExprs(n - 1 - k) } :
                 k \in 0..(n - 1) }

ConstPrograms ==
    UNION { { <<Function("main", <<>>, <<Return(e)>>)>> : e \in ConstExprs(n) } :
            n \in 0..MaxOps }

InitConst ==
    /\ ast \in ConstPrograms
    /\ checks \in BOOLEAN
    /\ module = <<>>
    /\ prev = <<>>
    /\ stage = "lower"
    /\ cursor = 0
    /\ lexIdle
    /\ loadIdle
    /\ extIdle

SpecConst == InitConst /\ [][Next]_vars

\* C22: constant expressions are folded completely: after optimize_module
\* the instructions lowered from an expression of integer literals and
\* foldable operators are the single LoadConstInt of its value (followed
\* here by the Return of `return E`), for every nesting depth and shape.
C22_ConstantsFoldedCompletely ==
    stage = "done" =>
        module[1].instructions
            = <<IRInstr("LoadConstInt", Eval(ast[1].body[1].value), ""), Op("Return")>>

(***************************************************************************)
(* Division and modulo by zero under const_fold: main(n) returns, or       *)
(* branches on, expressions over 0, 2 and n with Div, Mod and Add          *)
(***************************************************************************)
DivLeaves == {Number(0), Number(2), Identifier("n")}
DivOps == {"Div", "Mod", "Add"}
DivExprs1 == {Binary(op, l, r) : op \in DivOps, l \in DivLeaves, r \in DivLeaves}
DivExprs2 ==
    {Binary(op, x, r) : op \in DivOps, x \in DivExprs1, r \in DivLeaves}
        \cup {Binary(op, l, x) : op \in DivOps, l \in DivLeaves, x \in DivExprs1}
        \cup {Binary("Add", Binary("Div", Number(2), Number(0)), x) : x \in DivExprs1}

DivPrograms ==
    { <<Function("main", <<"n">>, <<Return(e)>>)>> : e \in DivExprs1 \cup DivExprs2 }
        \cup { <<Function("main", <<"n">>, <<If(c, <<Return(e)>>)>>)>> :
                    c \in DivExprs1, e \in DivExprs1 }

InitDiv ==
    /\ ast \in DivPrograms
    /\ checks \in BOOLEAN
    /\ module = <<>>
    /\ prev = <<>>
    /\ stage = "lower"
    /\ cursor = 0
    /\ lexIdle
    /\ loadIdle
    /\ extIdle

SpecDiv == InitDiv /\ [][Next]_vars

\* the last step was const_fold on function `cursor`: prev holds its input
JustFolded == stage \in {"dce1", "dce2"}

\* ir has LoadConstInt(a), LoadConstInt(0), Div or Mod at positions k..k+2
DivByZeroAt(ir, k) ==
    /\ k + 2 <= Len(ir)
    /\ ir[k].op = "LoadConstInt"
    /\ ir[k + 1].op = "LoadConstInt" /\ ir[k + 1].n = 0
    /\ ir[k + 2].op \in {"Div", "Mod"}

\* ir has a triple of two constants and a foldable operator at k..k+2
\* (a divisor that is not zero)
FoldableAt(ir, k) ==
    /\ k + 2 <= Len(ir)
    /\ ir[k].op = "LoadConstInt"
    /\ ir[k + 1].op = "LoadConstInt"
    /\ ir[k + 2].op \in FoldableOps
    /\ ir[k + 2].op \in {"Div", "Mod"} => ir[k + 1].n # 0

\* ir with the triple at k..k+2 replaced by the constant of its value
FoldedAt(ir, k) ==
    SubSeq(ir, 1, k - 1)
        \o <<IRInstr("LoadConstInt", WrappingOp(ir[k + 2].op, ir[k].n, ir[k + 1].n), "")>>
        \o SubSeq(ir, k + 3, Len(ir))

RECURSIVE OnlyTriplesFolded(_, _)
\* out is ir with some foldable triples replaced, one after the other, and
\* every other instruction kept as it is and where it is
OnlyTriplesFolded(ir, out) ==
    \/ ir = out
    \/ /\ Len(out) < Len(ir)
       /\ \E k \in 1..Len(ir) : FoldableAt(ir, k) /\ OnlyTriplesFolded(FoldedAt(ir, k), out)

\* C23: division by zero is never folded: every triple LoadConstInt(a),
\* LoadConstInt(0), Div or Mod of the input of const_fold is in its output
\* as the same three instructions in the same order, and every instruction
\* that is not part of a folded triple is kept unchanged and in its
\* original relative order.
C23_DivisionByZeroNeverFolded ==
    JustFolded =>
        LET ir == prev[cursor].instructions
            out == module[cursor].instructions
        IN  /\ \A k \in 1..Len(ir) :
                  DivByZeroAt(ir, k) =>
                      \E j \in 1..k : DivByZeroAt(out, j) /\ SubSeq(out, j, j + 2) = SubSeq(ir, k, k + 2)
            /\ OnlyTriplesFolded(ir, out)

\* const_fold has folded a triple of an input that divides by zero
C23_Witness ==
    /\ JustFolded
    /\ \E k \in 1..Len(prev[cursor].instructions) : DivByZeroAt(prev[cursor].instructions, k)
    /\ Len(module[cursor].instructions) < Len(prev[cursor].instructions)

(***************************************************************************)
(* Constant folding and control flow                                       *)
(***************************************************************************)
\* the positions of the Jump and JumpIfFalse instructions of ir, in order
JumpPositions(ir) == {k \in 1..Len(ir) : ir[k].op \in {"Jump", "JumpIfFalse"}}
NthJump(ir, j) ==
    CHOOSE k \in JumpPositions(ir) : Cardinality({m \in JumpPositions(ir) : m <= k}) = j

\* the instructions from the absolute index t on, jump operands left out
CodeFrom(ir, t) ==
    [k \in 1..(IF t < Len(ir) THEN Len(ir) - t ELSE 0) |->
        IF ir[t + k].op \in {"Jump", "JumpIfFalse"} THEN Op(ir[t + k].op) ELSE ir[t + k]]

\* C27: constant folding keeps control flow intact: when const_fold
\* replaces a triple in a function produced by lowering, every jump of the
\* output designates the instruction it designated in the input: the code
\* from its target on is the folded code from its former target on.
C27_FoldKeepsJumpTargets ==
    (stage = "dce1"
        /\ Len(module[cursor].instructions) < Len(prev[cursor].instructions)) =>
        LET ir == prev[cursor].instructions
            out == module[cursor].instructions
        IN  \A j \in 1..Cardinality(JumpPositions(ir)) :
                OnlyTriplesFolded(CodeFrom(ir, ir[NthJump(ir, j)].n),
                                  CodeFrom(out, out[NthJump(out, j)].n))

(***************************************************************************)
(* Slots of inlined code                                                   *)
(***************************************************************************)
\* a call instruction that inlining replaces: its target is a candidate of
\* the module before inlining and takes as many parameters as the call has
\* arguments
InlinedSite(functions, ins) ==
    /\ ins.op = "Call"
    /\ candidate_index(functions, ins.s) # 0
    /\ functions[candidate_index(functions, ins.s)].param_count = ins.n

\* the code of one inlined site: the k-th instruction stores the argument
\* that is k-th from the top of the stack, so argument i (from 0, in call
\* order) goes to slot base + i; every slot read or written is one of the
\* callee.local_count slots from base on
SiteUsesFreshSlots(seg, base, callee, arg_count) ==
    /\ \A k \in 1..arg_count :
          seg[k].op = "StoreLocal" /\ seg[k].n = base + (arg_count - k)
    /\ \A k \in 1..Len(seg) :
          seg[k].op \in {"LoadLocal", "StoreLocal"} =>
              base <= seg[k].n /\ seg[k].n < base + callee.local_count

RECURSIVE SitesUseFreshSlots(_, _, _, _, _, _)
\* old from instruction i on against out from instruction o on, with base
\* the caller's local_count before the site at i: each site has its own
\* slots, and in the end the caller's local_count covers them all
SitesUseFreshSlots(functions, old, i, out, o, base) ==
    IF i > Len(old.instructions)
    THEN o = Len(out.instructions) + 1 /\ base = out.local_count
    ELSE IF InlinedSite(functions, old.instructions[i])
    THEN LET callee == functions[candidate_index(functions, old.instructions[i].s)]
             arg_count == old.instructions[i].n
             size == arg_count + Len(callee.instructions) - 1
         IN  /\ o + size - 1 <= Len(out.instructions)
             /\ SiteUsesFreshSlots(SubSeq(out.instructions, o, o + size - 1), base,
                                   callee, arg_count)
             /\ SitesUseFreshSlots(functions, old, i + 1, out, o + size,
                                   base + callee.local_count)
    ELSE /\ o <= Len(out.instructions)
         /\ out.instructions[o] = old.instructions[i]
         /\ SitesUseFreshSlots(functions, old, i + 1, out, o + 1, base)

\* C29: inlined code touches only freshly reserved slots: after
\* inline_small_functions, at every inlined call site the argument stores
\* and the shifted callee body read and write only slots in
\* [base, base + callee.local_count) with base the caller's local_count
\* before the site, no two sites share a slot, and the i-th argument (in
\* call order) is stored in slot base + i.
C29_InlinedCodeUsesFreshSlots ==
    JustInlined =>
        \A f \in 1..Len(module) :
            SitesUseFreshSlots(prev, prev[f], 1, module[f], 1, prev[f].local_count)

\* a caller with two inlined sites of a callee with two parameters
C29_Witness ==
    /\ JustInlined
    /\ \E f \in 1..Len(module) :
          /\ Cardinality({k \in 1..Len(prev[f].instructions) :
                            /\ InlinedSite(prev, prev[f].instructions[k])
                            /\ prev[f].instructions[k].n = 2}) = 2
          /\ module[f].local_count = prev[f].local_count + 4

(***************************************************************************)
(* Emission of names with dots and underscores: the unit declares main,    *)
(* f and m_f, and main calls f, m_f and the module-qualified m.f           *)
(***************************************************************************)
NameStmts ==
    { Expression(ModuleCall("m", "f", <<Number(1)>>)),
      Return(ModuleCall("m", "f", <<Number(1)>>)),
      Expression(Call("m_f", <<Number(1)>>)),
      Expression(Call("f", <<Number(1)>>)),
      Expression(Call("time", <<>>)) }

NamePrograms ==
    { << Function("main", <<>>, body),
         Function("f", <<"a">>, <<Return(Identifier("a"))>>),
         Function("m_f", <<"a">>,
                  <<Expression(Call("print", <<String("ab")>>)), Return(Identifier("a"))>>) >> :
        body \in SeqsUpTo(NameStmts, MaxEmitBody) }

InitNames ==
    /\ ast \in NamePrograms
    /\ checks \in BOOLEAN
    /\ module = <<>>
    /\ prev = <<>>
    /\ stage = "lower"
    /\ cursor = 0
    /\ lexIdle
    /\ loadIdle
    /\ extIdle

SpecNames == InitNames /\ [][NextEmit]_vars

\* the names that occur in the IR module as function names or Call targets
ModuleNamesUsed ==
    { module[f].name : f \in 1..Len(module) }
        \cup UNION { { module[f].instructions[k].s :
                         k \in { i \in 1..Len(module[f].instructions) :
                                   module[f].instructions[i].op = "Call" } } :
                     f \in 1..Len(module) }

\* C28: name sanitization causes no collisions: any two distinct names that
\* occur as function names or Call targets of the emitted IR module have
\* distinct WAT identifiers, so no `call` emitted for a Call instruction
\* names the identifier under which a function of another name is emitted.
C28_SanitizedNamesDistinct ==
    stage = "emitted" =>
        /\ \A x, y \in ModuleNamesUsed : x # y => replace_dots(x) # replace_dots(y)
        /\ \A f, g \in 1..Len(module) : \A k \in 1..Len(module[f].instructions) :
              (module[f].instructions[k].op = "Call"
                  /\ wat.funcs[f].body[k] = <<Wat("call", 0, wat.funcs[g].id)>>)
                      => module[g].name = module[f].instructions[k].s

(***************************************************************************)
(* Scope of the checker's symbols: f(a) { return a }, then g with the      *)
(* parameters and body below, then main                                    *)
(***************************************************************************)
ScopeParams == { <<>>, <<"a">>, <<"f">>, <<"a", "b">> }

ScopeBodies ==
    { <<Let("v", Number(1))>>,
      <<Let("v", String("s"))>>,
      <<Return(Number(1))>>,
      <<Let("v", Number(1)), Assign("v", Number(2))>>,
      <<Assign("w", Number(1))>>,
      <<If(Identifier("v"), <<Let("w", Number(1))>>)>> }

ScopeMains ==
    { <<Assign("v", Number(2))>>,
      <<Assign("a", Number(2))>>,
      <<Let("v", Number(1)), Assign("v", Number(2))>>,
      <<Return(Identifier("v"))>>,
      <<Assign("w", String("s"))>>,
      <<Return(Call("f", <<Number(1)>>))>> }

ScopePrograms ==
    { << Function("f", <<"a">>, <<Return(Identifier("a"))>>),
         Function("g", params, body),
         Function("main", <<>>, main) >> :
        params \in ScopeParams, body \in ScopeBodies, main \in ScopeMains }

InitScope ==
    /\ ast \in ScopePrograms
    /\ checker = TypeChecker_new
    /\ checked = 0
    /\ tpc = "check"
    /\ checks = FALSE
    /\ module = <<>>
    /\ prev = <<>>
    /\ stage = "idle"
    /\ cursor = 0
    /\ lexIdle
    /\ loadIdle
    /\ wat = <<>>
    /\ parsed = <<>>

SpecScope == InitScope /\ [][NextTypes]_vars

\* the names a function binds itself at the top of its body before
\* statement k: its parameters and its earlier let statements
BoundBefore(func, k) ==
    { func.params[i] : i \in 1..Len(func.params) }
        \cup { func.body[j].name : j \in { i \in 1..(k - 1) : func.body[i].t = "Let" } }

\* C30: checking a function leaves the symbol table unchanged except for
\* the entry of the function's own name: a symbol that existed before keeps
\* its type, names bound by the parameters and let statements of the
\* function are gone afterwards, and an assignment in the function to a
\* variable that neither it nor the top level declares is reported as
\* undefined.
C30_FunctionLeavesSymbolsUnchanged ==
    [][ checked' = checked + 1 =>
          LET func == ast[checked + 1]
              declared == { ast[i].name : i \in 1..(checked + 1) }
          IN  /\ \A x \in (DOMAIN checker.symbols \cup DOMAIN checker'.symbols) \ {func.name} :
                    /\ x \in DOMAIN checker.symbols
                    /\ x \in DOMAIN checker'.symbols
                    /\ checker'.symbols[x] = checker.symbols[x]
              /\ \A k \in 1..Len(func.body) :
                    (func.body[k].t = "Assign"
                        /\ func.body[k].name \notin BoundBefore(func, k) \cup declared)
                      => \E e \in (Len(checker.errors) + 1)..Len(checker'.errors) :
                            checker'.errors[e]
                                = TypeError("not defined", func.body[k].name, 0, "", "") ]_vars

(***************************************************************************)
(* Parser methods (parser.rs).  A parser is [c, current, n]: the cursor of  *)
(* its lexer, its current token and the number of next_token calls made.   *)
(* A method returns [kind, v, p, msg, line, column]: kind "ok" with the     *)
(* value v, or kind "err" with the CompileError fields, and the parser p    *)
(* it leaves behind.  A loop of a method that goes round more often than    *)
(* the input has characters is one that never ends: kind "diverged".        *)
(* The arms for Token::Float, Token::True and Token::False are left out:    *)
(* the lexer has no such tokens.                                            *)
(***************************************************************************)
\* `let x = r;` followed by k(x): r is evaluated once, before k is entered
Then(r, k(_)) == CHOOSE out \in { k(x) : x \in {r} } : TRUE

\* Parser::advance
\* the lexer a parser owns: its input, and next_token as a function of the
\* cursor it is called at
Lexer(inp) ==
    [input |-> inp,
     next_token |-> [c \in [position : 0..Len(inp), line : 1..(Len(inp) + 1),
                            column : 1..(Len(inp) + 1)] |-> next_token(inp, c)]]

Parser_advance(lexer, p) ==
    Then(p, LAMBDA q :
    Then(lexer.next_token[q.c], LAMBDA r :
        [c |-> r.c, current |-> r.tok, n |-> q.n + 1]))

Ok(v, p) == [kind |-> "ok", v |-> v, p |-> p, msg |-> "", line |-> 0, column |-> 0]
\* CompileError::new(msg, self.lexer.line, self.lexer.column)
CompileError(msg, p) ==
    [kind |-> "err", v |-> <<>>, p |-> p, msg |-> msg, line |-> p.c.line,
     column |-> p.c.column]
Diverged(p) == [kind |-> "diverged", v |-> <<>>, p |-> p, msg |-> "", line |-> 0, column |-> 0]

ComparisonTokens ==
    {"Greater", "Less", "GreaterEqual", "LessEqual", "EqualEqual", "NotEqual"}
\* the Expr variant each operator token builds
binary_of(kind) ==
    CASE kind = "Greater" -> "Gt"
      [] kind = "Less" -> "Lt"
      [] kind = "GreaterEqual" -> "Ge"
      [] kind = "LessEqual" -> "Le"
      [] kind = "EqualEqual" -> "Eq"
      [] kind = "NotEqual" -> "Ne"
      [] kind = "Plus" -> "Add"
      [] kind = "Minus" -> "Sub"
      [] kind = "Star" -> "Mul"
      [] kind = "Slash" -> "Div"
      [] kind = "Percent" -> "Mod"

RECURSIVE parse_comparison(_, _)
RECURSIVE comparison_loop(_, _, _)
RECURSIVE parse_additive(_, _)
RECURSIVE additive_loop(_, _, _)
RECURSIVE parse_multiplicative(_, _)
RECURSIVE multiplicative_loop(_, _, _)
RECURSIVE parse_call(_, _)
RECURSIVE parse_arguments(_, _, _, _)
RECURSIVE parse_primary(_, _)

\* Parser::parse_expression
parse_expression(lexer, p) == parse_comparison(lexer, p)

\* the `while matches!(self.current, Token::Greater | ..)` loop
comparison_loop(lexer, left0, p0) ==
    Then(<<left0, p0>>, LAMBDA a : LET left == a[1]  p == a[2] IN
    IF p.current.kind \in ComparisonTokens
    THEN Then(parse_additive(lexer, Parser_advance(lexer, p)), LAMBDA r :
         IF r.kind # "ok" THEN r
         ELSE comparison_loop(lexer, Binary(binary_of(p.current.kind), left, r.v), r.p))
    ELSE Ok(left, p))

parse_comparison(lexer, p) ==
    Then(parse_additive(lexer, p), LAMBDA l :
    IF l.kind # "ok" THEN l ELSE comparison_loop(lexer, l.v, l.p))

\* the `while matches!(self.current, Token::Plus | Token::Minus)` loop
additive_loop(lexer, left0, p0) ==
    Then(<<left0, p0>>, LAMBDA a : LET left == a[1]  p == a[2] IN
    IF p.current.kind \in {"Plus", "Minus"}
    THEN Then(parse_multiplicative(lexer, Parser_advance(lexer, p)), LAMBDA r :
         IF r.kind # "ok" THEN r
         ELSE additive_loop(lexer, Binary(binary_of(p.current.kind), left, r.v), r.p))
    ELSE Ok(left, p))

parse_additive(lexer, p) ==
    Then(parse_multiplicative(lexer, p), LAMBDA l :
    IF l.kind # "ok" THEN l ELSE additive_loop(lexer, l.v, l.p))

\* the `while matches!(self.current, Token::Star | Token::Slash | Token::Percent)` loop
multiplicative_loop(lexer, left0, p0) ==
    Then(<<left0, p0>>, LAMBDA a : LET left == a[1]  p == a[2] IN
    IF p.current.kind \in {"Star", "Slash", "Percent"}
    THEN Then(parse_call(lexer, Parser_advance(lexer, p)), LAMBDA r :
         IF r.kind # "ok" THEN r
         ELSE multiplicative_loop(lexer, Binary(binary_of(p.current.kind), left, r.v), r.p))
    ELSE Ok(left, p))

parse_multiplicative(lexer, p) ==
    Then(parse_call(lexer, p), LAMBDA l :
    IF l.kind # "ok" THEN l ELSE multiplicative_loop(lexer, l.v, l.p))

\* the argument loop of parse_call and the `)` after it; p is past the `(`
parse_arguments(lexer, p0, args0, rounds) ==
    Then(<<p0, args0>>, LAMBDA a : LET p == a[1]  args == a[2] IN
    IF p.current.kind # "RParen" /\ p.current.kind # "EOF"
    THEN IF rounds > Len(lexer.input) THEN Diverged(p)
         ELSE Then(parse_expression(lexer, p), LAMBDA r :
              IF r.kind # "ok" THEN r
              ELSE parse_arguments(lexer,
                       IF r.p.current.kind = "Comma" THEN Parser_advance(lexer, r.p) ELSE r.p,
                       Append(args, r.v), rounds + 1))
    ELSE Ok(args, IF p.current.kind = "RParen" THEN Parser_advance(lexer, p) ELSE p))

\* Parser::parse_call
parse_call(lexer, p) ==
    Then(parse_primary(lexer, p), LAMBDA e :
    IF e.kind # "ok" THEN e
    ELSE IF e.v.e = "Identifier" /\ e.p.current.kind = "Dot"
    THEN Then(Parser_advance(lexer, e.p), LAMBDA p2 :
         IF p2.current.kind # "Identifier"
         THEN CompileError("Expected function name after '.'", p2)
         ELSE Then(Parser_advance(lexer, p2), LAMBDA p3 :
              IF p3.current.kind = "LParen"
              THEN Then(parse_arguments(lexer, Parser_advance(lexer, p3), <<>>, 0), LAMBDA a :
                   IF a.kind # "ok" THEN a
                   ELSE Ok(ModuleCall(e.v.s, p2.current.text, a.v), a.p))
              ELSE CompileError("Expected '(' after module function name", p3)))
    ELSE IF e.v.e = "Identifier" /\ e.p.current.kind = "LParen"
    THEN Then(parse_arguments(lexer, Parser_advance(lexer, e.p), <<>>, 0), LAMBDA a :
         IF a.kind # "ok" THEN a ELSE Ok(Call(e.v.s, a.v), a.p))
    ELSE e)

\* Parser::parse_primary
parse_primary(lexer, p0) ==
    Then(p0, LAMBDA p :
    CASE p.current.kind = "Number" -> Ok(Number(p.current.num), Parser_advance(lexer, p))
      [] p.current.kind = "String" -> Ok(String(p.current.text), Parser_advance(lexer, p))
      [] p.current.kind = "Identifier" ->
            Ok(Identifier(p.current.text), Parser_advance(lexer, p))
      [] p.current.kind = "LParen" ->
            Then(parse_expression(lexer, Parser_advance(lexer, p)), LAMBDA r :
            IF r.kind # "ok" THEN r
            ELSE Ok(r.v, IF r.p.current.kind = "RParen" THEN Parser_advance(lexer, r.p)
                         ELSE r.p))
      [] OTHER -> CompileError("Unexpected token in expression", p))

RECURSIVE parse_block(_, _, _, _)
RECURSIVE parse_statement(_, _)

\* `{` block `}` as the if, else and while arms read it: p is at the token
\* that has to be `{`; `open` and `close` are the two diagnostics
parse_braced(lexer, p0, open, close) ==
    Then(p0, LAMBDA p :
    IF p.current.kind # "LBrace" THEN CompileError(open, p)
    ELSE Then(parse_block(lexer, Parser_advance(lexer, p), <<>>, 0), LAMBDA b :
         IF b.kind # "ok" THEN b
         ELSE IF b.p.current.kind # "RBrace" THEN CompileError(close, b.p)
         ELSE Ok(b.v, Parser_advance(lexer, b.p))))

\* Parser::parse_while
parse_while(lexer, p) ==
    Then(parse_expression(lexer, Parser_advance(lexer, p)), LAMBDA c :
    IF c.kind # "ok" THEN c
    ELSE Then(parse_braced(lexer, c.p, "Expected '{' after while condition",
                           "Expected '}' after while body"), LAMBDA b :
         IF b.kind # "ok" THEN b ELSE Ok(While(c.v, b.v), b.p)))

\* Parser::parse_block: the `while self.current != RBrace && != EOF` loop
parse_block(lexer, p0, stmts0, rounds) ==
    Then(<<p0, stmts0>>, LAMBDA a : LET p == a[1]  stmts == a[2] IN
    IF p.current.kind # "RBrace" /\ p.current.kind # "EOF"
    THEN IF rounds > Len(lexer.input) THEN Diverged(p)
         ELSE Then(parse_statement(lexer, p), LAMBDA r :
              IF r.kind # "ok" THEN r
              ELSE parse_block(lexer, r.p, Append(stmts, r.v), rounds + 1))
    ELSE Ok(stmts, p))

\* Parser::parse_statement
parse_statement(lexer, p0) ==
    Then(p0, LAMBDA p :
    CASE p.current.kind = "Let" ->
            Then(Parser_advance(lexer, p), LAMBDA p1 :
            IF p1.current.kind # "Identifier"
            THEN CompileError("Expected variable name after 'let'", p1)
            ELSE Then(Parser_advance(lexer, p1), LAMBDA p2 :
                 IF p2.current.kind # "Assign"
                 THEN CompileError("Expected '=' after variable name", p2)
                 ELSE Then(parse_expression(lexer, Parser_advance(lexer, p2)), LAMBDA v :
                      IF v.kind # "ok" THEN v ELSE Ok(Let(p1.current.text, v.v), v.p))))
      [] p.current.kind = "While" -> parse_while(lexer, p)
      [] p.current.kind = "If" ->
            Then(parse_expression(lexer, Parser_advance(lexer, p)), LAMBDA c :
            IF c.kind # "ok" THEN c
            ELSE Then(parse_braced(lexer, c.p, "Expected '{' after if condition",
                                   "Expected '}' after if body"), LAMBDA t :
                 IF t.kind # "ok" THEN t
                 ELSE IF t.p.current.kind = "Else"
                 THEN Then(parse_braced(lexer, Parser_advance(lexer, t.p),
                                        "Expected '{' after else",
                                        "Expected '}' after else body"), LAMBDA e :
                      IF e.kind # "ok" THEN e ELSE Ok(IfElse(c.v, t.v, e.v), e.p))
                 ELSE Ok(If(c.v, t.v), t.p)))
      [] p.current.kind = "Return" ->
            Then(parse_expression(lexer, Parser_advance(lexer, p)), LAMBDA v :
            IF v.kind # "ok" THEN v ELSE Ok(Return(v.v), v.p))
      [] p.current.kind = "Panic" ->
            Then(Parser_advance(lexer, p), LAMBDA p1 :
            IF p1.current.kind # "LParen" THEN CompileError("Expected '(' after 'panic'", p1)
            ELSE Then(parse_expression(lexer, Parser_advance(lexer, p1)), LAMBDA v :
                 IF v.kind # "ok" THEN v
                 ELSE IF v.p.current.kind # "RParen"
                 THEN CompileError("Expected ')' after panic message", v.p)
                 ELSE Ok(Panic(v.v), Parser_advance(lexer, v.p))))
      [] p.current.kind = "Identifier" ->
            \* the lexer has moved on to the token after the identifier
            Then(Parser_advance(lexer, p), LAMBDA p1 :
            IF p1.current.kind = "Assign"
            THEN Then(parse_expression(lexer, Parser_advance(lexer, p1)), LAMBDA v :
                 IF v.kind # "ok" THEN v ELSE Ok(Assign(p.current.text, v.v), v.p))
            ELSE \* `self.current = Token::Identifier(name)`: the lexer stays
                 Then(parse_expression(lexer, [p1 EXCEPT !.current = p.current]), LAMBDA v :
                 IF v.kind # "ok" THEN v ELSE Ok(Expression(v.v), v.p)))
      [] OTHER ->
            Then(parse_expression(lexer, p), LAMBDA v :
            IF v.kind # "ok" THEN v ELSE Ok(Expression(v.v), v.p)))

RECURSIVE parse_parameters(_, _, _, _)
\* the parameter loop of parse_function and the `)` after it
parse_parameters(lexer, p0, params0, rounds) ==
    Then(<<p0, params0>>, LAMBDA a : LET p == a[1]  params == a[2] IN
    IF p.current.kind # "RParen" /\ p.current.kind # "EOF"
    THEN IF rounds > Len(lexer.input) THEN Diverged(p)
         ELSE IF p.current.kind = "Identifier"
         THEN Then(Parser_advance(lexer, p), LAMBDA p1 :
              parse_parameters(lexer,
                  IF p1.current.kind = "Comma" THEN Parser_advance(lexer, p1) ELSE p1,
                  Append(params, p.current.text), rounds + 1))
         ELSE CompileError("Expected parameter name", p)
    ELSE Ok(params, IF p.current.kind = "RParen" THEN Parser_advance(lexer, p) ELSE p))

\* Parser::parse_function
parse_function(lexer, p) ==
    Then(Parser_advance(lexer, p), LAMBDA p1 :
    IF p1.current.kind # "Identifier" THEN CompileError("Expected function name", p1)
    ELSE Then(Parser_advance(lexer, p1), LAMBDA p2 :
         Then(IF p2.current.kind = "LParen"
              THEN parse_parameters(lexer, Parser_advance(lexer, p2), <<>>, 0)
              ELSE Ok(<<>>, p2), LAMBDA ps :
         IF ps.kind # "ok" THEN ps
         ELSE IF ps.p.current.kind = "LBrace"
         THEN Then(parse_block(lexer, Parser_advance(lexer, ps.p), <<>>, 0), LAMBDA b :
              IF b.kind # "ok" THEN b
              ELSE Ok(Function(p1.current.text, ps.v, b.v),
                      IF b.p.current.kind = "RBrace" THEN Parser_advance(lexer, b.p)
                      ELSE b.p))
         ELSE Ok(Function(p1.current.text, ps.v, <<>>), ps.p))))

(***************************************************************************)
(* The parser methods as a state machine: Parser::new on a source text,    *)
(* then one call of parse_expression, parse_statement or (at `fn`)         *)
(* parse_function                                                          *)
(***************************************************************************)
\* the characters of a string, each a one-character string
Chars(str) == [k \in 1..Len(str) |-> SubSeq(str, k, k)]

OperandChars == <<"1", "2", "3", "4", "5", "6">>
OperatorChars == {"+", "-", "*", "/", "%", "<"}

\* operand (operator operand)* with single-character operands and operators
OperatorTexts ==
    UNION { { [k \in 1..(2 * n + 1) |->
                 IF k % 2 = 1 THEN OperandChars[(k + 1) \div 2] ELSE ops[k \div 2]] :
              ops \in [1..n -> OperatorChars] } :
            n \in 0..MaxOps }

\* block statements that start with an identifier
IdentStmtTexts ==
    { Chars("f(1)"), Chars("b.f()"), Chars("a=1"), Chars("a=f(1)"), Chars("a"),
      Chars("a+1"), Chars("a==1"), Chars("f(1)+2"), Chars("a = b.f(1)"), Chars("x\n =1"),
      Chars("f(a,b)*2<x") }

\* function declarations, some of them rejected
FnTexts ==
    { Chars("fn"), Chars("fn 1"), Chars("fn\n("), Chars("fn f(1)"), Chars("fn f(a,\n1)"),
      Chars("fn f(){let 1}"), Chars("fn f(){let a 1}"), Chars("fn f(){a=)}"),
      Chars("fn f(a){if a 1}"), Chars("fn f(a){if a{a=1} b=2}"), Chars("fn f(){a=1}"),
      Chars("fn f(a,b){let x=a+b}"), Chars("fn f(){b.1}"), Chars("fn f(){b.f}"),
      Chars("fn f(){\n  let x = (1\n  x = }\n}"), Chars("fn f(%)"), Chars("fn f(){%}") }

ParserTexts == OperatorTexts \cup IdentStmtTexts \cup FnTexts

InitParser ==
    /\ input \in ParserTexts
    /\ position = 0
    /\ line = 1
    /\ column = 1
    /\ current = Tok("EOF")
    /\ ntokens = 0
    /\ ppc = "new"
    /\ optIdle
    /\ loadIdle
    /\ extIdle

\* the parser as the state holds it
ThisParser == [c |-> Cursor, current |-> current, n |-> ntokens]

\* the state after a parser method has returned r (or has been found to
\* loop for ever)
Returned(r, method) ==
    /\ parsed' = [kind |-> r.kind, v |-> r.v, msg |-> r.msg, line |-> r.line,
                  column |-> r.column]
    /\ position' = r.p.c.position
    /\ line' = r.p.c.line
    /\ column' = r.p.c.column
    /\ current' = r.p.current
    /\ ntokens' = r.p.n
    /\ ppc' = method
    /\ UNCHANGED <<input, optVars, loadVars, wat, tcVars>>

\* self.parse_expression()
ParseExpression ==
    /\ ppc = "parse"
    /\ \E r \in {parse_expression(Lexer(input), ThisParser)} : Returned(r, "expression")

\* self.parse_statement(), as parse_block calls it
ParseStatement ==
    /\ ppc = "parse"
    /\ current.kind \notin {"RBrace", "EOF"}
    /\ \E r \in {parse_statement(Lexer(input), ThisParser)} : Returned(r, "statement")

\* self.parse_function(false), as parse calls it at Token::Fn
ParseFunction ==
    /\ ppc = "parse"
    /\ current.kind = "Fn"
    /\ \E r \in {parse_function(Lexer(input), ThisParser)} : Returned(r, "function")

NextParser == ParserNew \/ ParseExpression \/ ParseStatement \/ ParseFunction

SpecParser == InitParser /\ [][NextParser]_vars

(***************************************************************************)
(* Reference grammar of operator texts: comparison over additive over      *)
(* multiplicative, each level left-associative                             *)
(***************************************************************************)
PrecedenceOf(ch) ==
    CASE ch = "<" -> 1
      [] ch \in {"+", "-"} -> 2
      [] ch \in {"*", "/", "%"} -> 3
OperatorOf(ch) ==
    CASE ch = "<" -> "Lt" [] ch = "+" -> "Add" [] ch = "-" -> "Sub"
      [] ch = "*" -> "Mul" [] ch = "/" -> "Div" [] ch = "%" -> "Mod"

RECURSIVE ReferenceParse(_)
\* the loosest operator that stands last is the root of the tree
ReferenceParse(chars) ==
    IF Len(chars) = 1 THEN Number(DigitValue(chars[1]))
    ELSE LET ops == {k \in 1..Len(chars) : k % 2 = 0}
             root == CHOOSE k \in ops :
                        \A j \in ops :
                            \/ PrecedenceOf(chars[j]) > PrecedenceOf(chars[k])
                            \/ PrecedenceOf(chars[j]) = PrecedenceOf(chars[k]) /\ j <= k
         IN  Binary(OperatorOf(chars[root]), ReferenceParse(SubSeq(chars, 1, root - 1)),
                    ReferenceParse(SubSeq(chars, root + 1, Len(chars))))

\* C24: expression parsing respects precedence and associativity: for
\* every sequence of operands and operators (* / % over + - over <, each
\* level left-associative) parse_expression returns the AST of the
\* reference grammar.
C24_PrecedenceAndAssociativity ==
    (ppc = "expression" /\ input \in OperatorTexts) =>
        /\ parsed.kind = "ok"
        /\ parsed.v = ReferenceParse(input)

(***************************************************************************)
(* Claims about statements and diagnostics                                 *)
(***************************************************************************)
\* the parser Parser::new builds for the input
NewParser ==
    Parser_advance(Lexer(input), [c |-> [position |-> 0, line |-> 1, column |-> 1],
                                  current |-> Tok("EOF"), n |-> 0])

\* C25: the one-token peek of a block statement that starts with an
\* identifier loses no token: followed by `=` the statement parses to
\* Assign{name, value} with value the parse of what follows the `=`;
\* followed by anything else it parses to Expression(e) with e the parse
\* of the same, complete token sequence, and the parser ends where that
\* parse ends.
C25_PeekLosesNoToken ==
    (ppc = "statement" /\ input \in IdentStmtTexts) =>
        IF Parser_advance(Lexer(input), NewParser).current.kind = "Assign"
        THEN LET value == parse_expression(Lexer(input),
                              Parser_advance(Lexer(input),
                                  Parser_advance(Lexer(input), NewParser)))
             IN  /\ parsed.kind = "ok"
                 /\ parsed.v = Assign(NewParser.current.text, value.v)
                 /\ position = value.p.c.position
        ELSE LET e == parse_expression(Lexer(input), NewParser)
             IN  /\ parsed.kind = "ok"
                 /\ parsed.v = Expression(e.v)
                 /\ position = e.p.c.position /\ current = e.p.current

\* line and column of the character at 0-based index pos of the text
LineOf(inp, pos) == 1 + Cardinality({k \in 1..pos : inp[k] = "\n"})
ColumnOf(inp, pos) ==
    LET newlines == {k \in 1..pos : inp[k] = "\n"}
        last == IF newlines = {} THEN 0 ELSE CHOOSE k \in newlines : \A j \in newlines : j <= k
    IN  pos - last + 1

RECURSIVE TokenStart(_, _, _)
\* the index of the first character of the k-th token of the text from the
\* cursor c on (for EOF: the end of the text)
TokenStart(inp, c, k) ==
    IF k <= 1 THEN skip_whitespace(inp, c).position
    ELSE TokenStart(inp, next_token(inp, c).c, k - 1)

\* C26: diagnostic locations are precise: in every state the lexer's line
\* and column are those of its cursor (both start at 1, a newline adds 1 to
\* line and resets column to 1, every other character adds 1 to column),
\* and the (line, column) of a diagnostic of parse_function is the
\* position of the first character of the token the parser rejected, which
\* is the last token the lexer produced.
C26_DiagnosticLocationsPrecise ==
    /\ line = LineOf(input, position)
    /\ column = ColumnOf(input, position)
    /\ (ppc = "function" /\ parsed.kind = "err") =>
          LET start == TokenStart(input, [position |-> 0, line |-> 1, column |-> 1],
                                  ntokens)
          IN  /\ parsed.line = LineOf(input, start)
              /\ parsed.column = ColumnOf(input, start)

====
